---- MODULE Spec2Model ----
(***************************************************************************)
(* InvenEase backend: authentication / session / security core and the     *)
(* real-time notification gateway, modelled as a state machine.            *)
(*                                                                         *)
(* The Credential Store (Prisma) is the shared state.  A request handler   *)
(* is one action unless a claim is about its interleaving with other       *)
(* flows; refreshToken is modelled at the granularity of its awaits.       *)
(* A token string is identified with the id of the record created for it   *)
(* (Token.token is UNIQUE in the schema); the fields of the record that    *)
(* are also signed into the JWT payload (type, userId, tokenId, exp) are   *)
(* read from the record when the string is presented.                      *)
(***************************************************************************)
EXTENDS Integers, Sequences, FiniteSets, TLC

\* ---------------------------------------------------------------- bounds
NumUsers == 2
NumPasswords == 2
MaxTokens == 3
MaxTime == 2
MaxRotations == 1
NumProcs == 2

\* configuration values (environment driven), scaled down
AccessExpiresIn == 1
RefreshExpiresIn == 1
EmailExpiresIn == 1
PasswordResetExpiresIn == 1
MaxLoginAttempts == 2
LoginAttemptWindow == 1
AccountLockoutDuration == 1
MaxConcurrentSessions == 2
MaxAttempts == 3
NumSessionIds == 3
MaxNotifications == 2

NumSockets == 2
NumTimers == 2
\* config.session.inactiveTimeout, in ticks
InactiveTimeout == 1
Users == 1..NumUsers
Sockets == 1..NumSockets
SessionIds == 1..NumSessionIds
Passwords == 1..NumPasswords
Procs == 1..NumProcs
NULL == -1
NoToken == 0

TokenTypes == {"ACCESS", "REFRESH", "EMAIL_VERIFICATION", "PASSWORD_RESET"}

VARIABLES
    users,          \* User table, keyed by email (= user id)
    tokens,         \* Token table: sequence of records, id = index
    now,            \* the clock (Date.now())
    secretsEqual,   \* configuration: are the per-type JWT secrets the same string
    resp,           \* response of the last finished request
    reqUser,        \* req.user attached by the last authenticate (NULL if none)
    rf,             \* the in-flight refreshToken flow
    rp,             \* the in-flight resetPassword flow (stepwise runs)
    procs,          \* concurrent calls: per process, its position and locals
    failedRun,      \* history: the current run of back-to-back failed logins
    loginAttempts,  \* LoginAttempt table: sequence of [userId, success, createdAt]
    sessions,       \* Session table: set of [id, userId, lastActive]
    connectedUsers, \* socket gateway registry: user id -> sequence of socket ids
    notifications,  \* Notification table: sequence of records, id = index
    socketUser,     \* socket.data.user.id of each accepted connection (0: not connected)
    pushed,         \* per socket: ids sent to it in new:notification events
    listed,         \* the last notifications event emitted: the socket and the ids in it
    sn,             \* the in-flight sendNotification call (stepwise runs)
    cleanupInterval,\* CleanupService.cleanupInterval: the timer handle or NULL
    timers          \* the interval timers of the process that are scheduled

secVars == <<loginAttempts, sessions, cleanupInterval, timers>>
notifVars == <<connectedUsers, notifications, socketUser, pushed, listed, sn>>
vars == <<users, tokens, now, secretsEqual, procs, resp, reqUser, rf, rp, failedRun,
          loginAttempts, sessions, connectedUsers, notifications, socketUser,
          pushed, listed, sn, cleanupInterval, timers>>

\* ------------------------------------------------------------ pure helpers

\* bcrypt.hash / bcrypt.compare
Hash(p) == <<"bcrypt", p>>
Compare(p, h) == h = Hash(p)

NoUser == [exists |-> FALSE, password |-> Hash(0), isActive |-> FALSE,
           isVerified |-> FALSE, isLocked |-> FALSE, lockoutExpiry |-> NULL,
     deletedAt |-> NULL]

\* tokenConfigs[tokenType].expiresIn
ExpiresIn(type) ==
    CASE type = "ACCESS" -> AccessExpiresIn
      [] type = "REFRESH" -> RefreshExpiresIn
      [] type = "EMAIL_VERIFICATION" -> EmailExpiresIn
      [] type = "PASSWORD_RESET" -> PasswordResetExpiresIn

\* tokenConfigs[tokenType].secret
Secret(type) == IF secretsEqual THEN "secret" ELSE type

\* generateToken + prisma.token.create: the record of a freshly signed token.
\* tokenId is the tokenId claim of the payload (NoToken when absent).
NewToken(type, userId, tokenId) ==
    [type |-> type, userId |-> userId, expiresAt |-> now + ExpiresIn(type),
     invalidated |-> FALSE, tokenId |-> tokenId]

TokenIds == 1..Len(tokens)

\* the last request and what the client receives for it: the operation, the
\* account (email / user id) and the token it was made with, the status and
\* message of the response, and (login / refresh) the tokens the service
\* returned, the names of the cookies the controller set, (register) the
\* names of the fields of the user object in the response body, and the rows
\* the request added to the ActivityLog table before it returned; for a
\* socket connection, the handshake token it was attempted with; for a
\* broadcast, the recipients whose sendNotification rejected
Response(op, status, message) ==
    [op |-> op, email |-> 0, token |-> NoToken, status |-> status, message |-> message,
     accessToken |-> NoToken, refreshToken |-> NoToken, cookies |-> {}, fields |-> {},
     log |-> {}, handshake |-> [kind |-> "none", id |-> 0], failed |-> {}]

\* prisma.activityLog.create({ data: { entityType: "User", action, userId } })
ActivityRow(action, userId) == [action |-> action, userId |-> userId]

NoList == [sock |-> 0, page |-> {}]

NoRun == [email |-> 0, count |-> 0, since |-> 0]

Idle == [pc |-> "idle", old |-> NoToken, user |-> 0, access |-> NoToken, refresh |-> NoToken]

\* no sendNotification call in flight
NoSend == [pc |-> "idle", id |-> 0, recipientId |-> 0]

\* a process with no call in flight
NoCall == [op |-> "none", pc |-> "idle"]

\* the process has no call between two of its store calls
Finished(p) == procs[p].pc \in {"idle", "done"}

\* no resetPassword call in flight
NoReset == [pc |-> "idle", token |-> NoToken, user |-> 0, password |-> 0]

\* -------------------------------------------------------------------- Init
EmptyStore ==
    /\ users = [u \in Users |-> NoUser]
    /\ tokens = <<>>
    /\ now = 0
    /\ resp = Response("none", "OK", "")
    /\ reqUser = NULL
    /\ rf = Idle
    /\ rp = NoReset
    /\ procs = [p \in Procs |-> NoCall]
    /\ failedRun = NoRun
    /\ loginAttempts = <<>>
    /\ sessions = {}
    /\ connectedUsers = [u \in {} |-> <<>>]
    /\ notifications = <<>>
    /\ socketUser = [s \in Sockets |-> 0]
    /\ pushed = [s \in Sockets |-> {}]
    /\ listed = NoList
    /\ sn = NoSend
    /\ cleanupInterval = NULL
    /\ timers = {}

\* the documented configuration: one secret per token type
Init == EmptyStore /\ secretsEqual = FALSE

\* any configuration of the secrets
InitAnySecrets == EmptyStore /\ secretsEqual \in BOOLEAN

\* ---------------------------------------------------------------- actions

\* faulty variant of the user row of register: created already verified
NewUser_Verified(password) ==
    [exists |-> TRUE, password |-> Hash(password), isActive |-> TRUE,
     isVerified |-> TRUE, isLocked |-> FALSE, lockoutExpiry |-> NULL,
     deletedAt |-> NULL]

\* auth.service.ts register, prisma.user.create: the row of the new user
\* (isVerified, isLocked and lockoutExpiry take the schema defaults)
NewUser(password) ==
    [exists |-> TRUE, password |-> Hash(password), isActive |-> TRUE,
     isVerified |-> FALSE, isLocked |-> FALSE, lockoutExpiry |-> NULL,
     deletedAt |-> NULL]

\* auth.service.ts register: const { password: _, ...userWithoutPassword } = user
UserWithoutPassword(user) == [f \in DOMAIN user \ {"password"} |-> user[f]]

\* auth.service.ts register (controller: 201 with the sanitized user)
Register(email, password, mailOk) ==
    /\ IF users[email].exists
       THEN /\ resp' = [Response("register", "CONFLICT", "User with this email already exists")
                            EXCEPT !.email = email]
            /\ UNCHANGED <<users, tokens>>
       ELSE /\ Len(tokens) < MaxTokens
            /\ users' = [users EXCEPT ![email] = NewUser(password)]
            /\ tokens' = Append(tokens, NewToken("EMAIL_VERIFICATION", email, NoToken))
            /\ resp' = IF mailOk
                       THEN [Response("register", "CREATED", "User registered successfully. Please verify your email.")
                                EXCEPT !.email = email,
                                       !.fields = DOMAIN UserWithoutPassword(NewUser(password))]
                       ELSE [Response("register", "INTERNAL_SERVER_ERROR", "An unexpected error occurred.")
                                EXCEPT !.email = email]
    /\ reqUser' = NULL
    /\ failedRun' = NoRun
    /\ UNCHANGED <<now, secretsEqual, procs, rp, rf, secVars, notifVars>>

\* faulty variant of verifyEmail: the used token is not invalidated
VerifyEmail_NoInvalidate(t) ==
    /\ IF t \notin TokenIds \/ tokens[t].type # "EMAIL_VERIFICATION" \/ tokens[t].invalidated
       THEN /\ resp' = [Response("verifyEmail", "UNAUTHORIZED", "Invalid or expired verification token")
                            EXCEPT !.token = t]
            /\ UNCHANGED <<users, tokens>>
       ELSE IF now > tokens[t].expiresAt
       THEN /\ tokens' = [tokens EXCEPT ![t].invalidated = TRUE]
            /\ resp' = [Response("verifyEmail", "UNAUTHORIZED", "Verification token has expired")
                            EXCEPT !.token = t]
            /\ UNCHANGED users
       ELSE IF ~users[tokens[t].userId].exists
       THEN /\ resp' = [Response("verifyEmail", "NOT_FOUND", "User not found") EXCEPT !.token = t]
            /\ UNCHANGED <<users, tokens>>
       ELSE /\ users' = [users EXCEPT ![tokens[t].userId].isVerified = TRUE]
            /\ resp' = [Response("verifyEmail", "OK", "Email verified successfully")
                            EXCEPT !.email = tokens[t].userId, !.token = t,
                                   !.log = {ActivityRow("EMAIL_VERIFICATION", tokens[t].userId)}]
            /\ UNCHANGED tokens
    /\ reqUser' = NULL
    /\ failedRun' = NoRun
    /\ UNCHANGED <<now, secretsEqual, procs, rp, rf, secVars, notifVars>>

\* auth.service.ts verifyEmail
VerifyEmail(t) ==
    /\ IF t \notin TokenIds \/ tokens[t].type # "EMAIL_VERIFICATION" \/ tokens[t].invalidated
       THEN /\ resp' = [Response("verifyEmail", "UNAUTHORIZED", "Invalid or expired verification token")
                            EXCEPT !.token = t]
            /\ UNCHANGED <<users, tokens>>
       ELSE IF now > tokens[t].expiresAt
       THEN /\ tokens' = [tokens EXCEPT ![t].invalidated = TRUE]
            /\ resp' = [Response("verifyEmail", "UNAUTHORIZED", "Verification token has expired")
                            EXCEPT !.token = t]
            /\ UNCHANGED users
       ELSE IF ~users[tokens[t].userId].exists
       THEN /\ resp' = [Response("verifyEmail", "NOT_FOUND", "User not found") EXCEPT !.token = t]
            /\ UNCHANGED <<users, tokens>>
       ELSE /\ users' = [users EXCEPT ![tokens[t].userId].isVerified = TRUE]
            /\ tokens' = [tokens EXCEPT ![t].invalidated = TRUE]
            /\ resp' = [Response("verifyEmail", "OK", "Email verified successfully")
                            EXCEPT !.email = tokens[t].userId, !.token = t,
                                   !.log = {ActivityRow("EMAIL_VERIFICATION", tokens[t].userId)}]
    /\ reqUser' = NULL
    /\ failedRun' = NoRun
    /\ UNCHANGED <<now, secretsEqual, procs, rp, rf, secVars, notifVars>>

\* the run of back-to-back logins rejected for a wrong password, after one
\* more of them for email
RunAfterFailure(email) ==
    IF failedRun.email = email
    THEN [failedRun EXCEPT !.count = IF @ < MaxLoginAttempts THEN @ + 1 ELSE @]
    ELSE [email |-> email, count |-> 1, since |-> now]

\* faulty variant of login: the isVerified check is missing
LoginResult_NoVerifiedCheck(email, password) ==
    IF ~users[email].exists THEN "Invalid email or password"
    ELSE IF ~users[email].isActive THEN "Account is inactive"
    ELSE IF ~Compare(password, users[email].password) THEN "Invalid email or password"
    ELSE "ok"

\* auth.service.ts login: the error it throws, "ok" when it issues tokens
LoginResult(email, password) ==
    IF ~users[email].exists THEN "Invalid email or password"
    ELSE IF ~users[email].isActive THEN "Account is inactive"
    ELSE IF ~Compare(password, users[email].password) THEN "Invalid email or password"
    ELSE IF ~users[email].isVerified THEN "Verify your email first"
    ELSE "ok"

\* status class of a login error
LoginStatus(msg) ==
    IF msg = "ok" THEN "OK"
    ELSE IF msg = "Verify your email first" THEN "FORBIDDEN"
    ELSE "UNAUTHORIZED"

\* auth.service.ts login: the Token table after its creates
TokensAfterLogin(email, rememberMe) ==
    IF rememberMe
    THEN tokens \o <<NewToken("ACCESS", email, NoToken),
                     NewToken("REFRESH", email, Len(tokens) + 1)>>
    ELSE Append(tokens, NewToken("ACCESS", email, NoToken))

\* auth.controller.ts login: the cookies set on the response.  Both
\* res.cookie calls are unconditional; without rememberMe the refresh cookie
\* carries String(undefined)
LoginCookies(rememberMe) == {"access_token", "refresh_token"}

\* auth.service.ts login, auth.controller.ts login
Login(email, password, rememberMe) ==
    LET accessId == Len(tokens) + 1
        refreshId == Len(tokens) + 2
    IN
    /\ IF LoginResult(email, password) # "ok"
       THEN /\ resp' = [Response("login", LoginStatus(LoginResult(email, password)),
                                 LoginResult(email, password)) EXCEPT !.email = email]
            /\ failedRun' = IF users[email].exists /\ users[email].isActive
                               /\ ~Compare(password, users[email].password)
                            THEN RunAfterFailure(email) ELSE NoRun
            /\ UNCHANGED tokens
       ELSE /\ Len(tokens) + (IF rememberMe THEN 2 ELSE 1) <= MaxTokens
            /\ tokens' = TokensAfterLogin(email, rememberMe)
            /\ resp' = [Response("login", "OK", "Login successful") EXCEPT
                            !.email = email,
                            !.accessToken = accessId,
                            !.refreshToken = IF rememberMe THEN refreshId ELSE NoToken,
                            !.cookies = LoginCookies(rememberMe),
                            !.log = {ActivityRow("LOGIN", email)}]
            /\ failedRun' = NoRun
    /\ reqUser' = NULL
    /\ UNCHANGED <<users, now, secretsEqual, procs, rp, rf, secVars, notifVars>>

\* jwt.ts verifyToken: jwt.verify checks the signature against the secret of
\* the expected type, then the exp claim
VerifyToken(t, tokenType) ==
    IF t \notin TokenIds THEN "Invalid token"
    ELSE IF Secret(tokens[t].type) # Secret(tokenType) THEN "Invalid token"
    ELSE IF now >= tokens[t].expiresAt THEN "Token expired"
    ELSE "ok"

\* security.service.ts isAccountLocked: the value returned
IsAccountLocked(userId) ==
    LET user == users[userId] IN
    IF ~(user.exists /\ user.isLocked) THEN FALSE
    ELSE IF user.lockoutExpiry # NULL /\ user.lockoutExpiry < now THEN FALSE
    ELSE TRUE

\* faulty variant of isAccountLocked: the expired lock is reported but not cleared
UsersAfterLockCheck_NoClear(userId) == users

\* security.service.ts isAccountLocked: the User table it leaves
UsersAfterLockCheck(userId) ==
    LET user == users[userId] IN
    IF user.exists /\ user.isLocked /\ user.lockoutExpiry # NULL /\ user.lockoutExpiry < now
    THEN [users EXCEPT ![userId].isLocked = FALSE, ![userId].lockoutExpiry = NULL]
    ELSE users

\* faulty variant of authenticate: the payload type is not compared with ACCESS
AuthResult_NoTypeCheck(t) ==
    IF t = NULL THEN "Authentication required"
    ELSE IF VerifyToken(t, "ACCESS") = "Token expired" THEN "Session expired, please login again"
    ELSE IF VerifyToken(t, "ACCESS") = "Invalid token" THEN "Invalid authentication token"
    ELSE IF tokens[t].tokenId # NoToken
            /\ (tokens[t].tokenId \notin TokenIds \/ tokens[tokens[t].tokenId].invalidated)
         THEN "Token has been revoked"
    ELSE IF ~users[tokens[t].userId].exists THEN "User not found"
    ELSE IF ~users[tokens[t].userId].isActive THEN "Account is inactive"
    ELSE IF IsAccountLocked(tokens[t].userId) THEN "Account is locked. Please try again later."
    ELSE "ok"

\* auth.middleware.ts authenticate: the error passed to next(), "ok" when the
\* request goes through.  t = NULL is a request without header and cookie.
AuthResult(t) ==
    IF t = NULL THEN "Authentication required"
    ELSE IF VerifyToken(t, "ACCESS") = "Token expired" THEN "Session expired, please login again"
    ELSE IF VerifyToken(t, "ACCESS") = "Invalid token" THEN "Invalid authentication token"
    ELSE IF tokens[t].type # "ACCESS" THEN "Invalid token type"
    ELSE IF tokens[t].tokenId # NoToken
            /\ (tokens[t].tokenId \notin TokenIds \/ tokens[tokens[t].tokenId].invalidated)
         THEN "Token has been revoked"
    ELSE IF ~users[tokens[t].userId].exists THEN "User not found"
    ELSE IF ~users[tokens[t].userId].isActive THEN "Account is inactive"
    ELSE IF IsAccountLocked(tokens[t].userId) THEN "Account is locked. Please try again later."
    ELSE "ok"

\* status class of an authenticate error
AuthStatus(msg) ==
    IF msg = "ok" THEN "OK"
    ELSE IF msg = "Account is locked. Please try again later." THEN "TOO_MANY_REQUESTS"
    ELSE "UNAUTHORIZED"

\* did authenticate reach the isAccountLocked call
ReachedLockCheck(t) ==
    AuthResult(t) \in {"ok", "Account is locked. Please try again later."}

\* auth.middleware.ts authenticate as the whole handler of a protected route
Authenticate(t) ==
    /\ resp' = [Response("authenticate", AuthStatus(AuthResult(t)), AuthResult(t))
                    EXCEPT !.token = t]
    /\ reqUser' = IF AuthResult(t) = "ok"
                  THEN [id |-> tokens[t].userId, tokenId |-> tokens[t].tokenId]
                  ELSE NULL
    /\ users' = IF ReachedLockCheck(t) THEN UsersAfterLockCheck(tokens[t].userId) ELSE users
    /\ failedRun' = NoRun
    /\ UNCHANGED <<tokens, now, secretsEqual, procs, rp, rf, secVars, notifVars>>

\* Prisma `token: { contains: tokenId }` on the signed string: the payload is
\* base64url-encoded inside the JWT, so the raw record id is not a substring
TokenStringContains(t, tokenId) == FALSE

\* faulty variant of logout: the all-devices updateMany has no type filter
TokensAfterLogout_AllTypes(userId, tokenId, allDevices) ==
    IF allDevices
    THEN [i \in TokenIds |->
            IF tokens[i].userId = userId /\ ~tokens[i].invalidated
            THEN [tokens[i] EXCEPT !.invalidated = TRUE] ELSE tokens[i]]
    ELSE tokens

\* auth.service.ts logout: the Token table it leaves
TokensAfterLogout(userId, tokenId, allDevices) ==
    IF allDevices
    THEN [i \in TokenIds |->
            IF tokens[i].userId = userId /\ ~tokens[i].invalidated
               /\ tokens[i].type \in {"ACCESS", "REFRESH"}
            THEN [tokens[i] EXCEPT !.invalidated = TRUE] ELSE tokens[i]]
    ELSE IF tokenId # NoToken /\ tokenId \in TokenIds /\ tokens[tokenId].userId = userId
    THEN [i \in TokenIds |->
            IF i = tokenId \/ (tokens[i].type = "REFRESH" /\ tokens[i].userId = userId
                               /\ TokenStringContains(i, tokenId))
            THEN [tokens[i] EXCEPT !.invalidated = TRUE] ELSE tokens[i]]
    ELSE tokens

\* auth.service.ts logout: its outcome
LogoutResult(userId, tokenId, allDevices) ==
    IF allDevices THEN [Response("logout", "OK", "Logged out from all devices")
                            EXCEPT !.log = {ActivityRow("LOGOUT_ALL", userId)}]
    ELSE IF tokenId = NoToken THEN Response("logout", "BAD_REQUEST", "Token ID required for logout")
    ELSE IF tokenId \notin TokenIds \/ tokens[tokenId].userId # userId
         THEN Response("logout", "UNAUTHORIZED", "Invalid token")
    ELSE [Response("logout", "OK", "Logged out successfully")
              EXCEPT !.log = {ActivityRow("LOGOUT", userId)}]

\* POST /auth/logout: authenticate, then auth.controller.ts logout
LogoutRequest(t, allDevices) ==
    /\ users' = IF ReachedLockCheck(t) THEN UsersAfterLockCheck(tokens[t].userId) ELSE users
    /\ IF AuthResult(t) # "ok"
       THEN /\ resp' = [Response("logout", AuthStatus(AuthResult(t)), AuthResult(t))
                            EXCEPT !.token = t]
            /\ reqUser' = NULL
            /\ UNCHANGED tokens
       ELSE /\ reqUser' = [id |-> tokens[t].userId, tokenId |-> tokens[t].tokenId]
            /\ tokens' = TokensAfterLogout(tokens[t].userId, tokens[t].tokenId, allDevices)
            /\ resp' = [LogoutResult(tokens[t].userId, tokens[t].tokenId, allDevices)
                            EXCEPT !.token = t, !.email = tokens[t].userId]
    /\ failedRun' = NoRun
    /\ UNCHANGED <<now, secretsEqual, procs, rp, rf, secVars, notifVars>>

\* the body every forgot-password request is meant to get
GenericForgotMessage == "If your email is registered, you will receive a password reset link"

\* faulty variant of forgotPassword: isActive is not looked at
ForgotIssues_NoActiveCheck(email) == users[email].exists

\* does forgotPassword issue a token and send the reset email
ForgotIssues(email) == users[email].exists /\ users[email].isActive

\* auth.service.ts forgotPassword, auth.controller.ts forgotPassword: the
\* response; sendEmail rethrows a transport failure as a plain Error, which
\* the error middleware answers with 500
ForgotResponse(email, mailOk) ==
    IF ~ForgotIssues(email) THEN Response("forgotPassword", "OK", GenericForgotMessage)
    ELSE IF mailOk THEN Response("forgotPassword", "OK", GenericForgotMessage)
    ELSE Response("forgotPassword", "INTERNAL_SERVER_ERROR", "An unexpected error occurred.")

\* auth.service.ts forgotPassword
ForgotPassword(email, mailOk) ==
    /\ IF ~ForgotIssues(email)
       THEN UNCHANGED tokens
       ELSE /\ Len(tokens) < MaxTokens
            /\ tokens' = Append(tokens, NewToken("PASSWORD_RESET", email, NoToken))
    /\ resp' = [ForgotResponse(email, mailOk) EXCEPT
                    !.email = email,
                    !.log = IF ForgotIssues(email) /\ mailOk
                            THEN {ActivityRow("PASSWORD_RESET_REQUEST", email)} ELSE {}]
    /\ reqUser' = NULL
    /\ failedRun' = NoRun
    /\ UNCHANGED <<users, now, secretsEqual, procs, rp, rf, secVars, notifVars>>

\* faulty variant of resetPassword: only the reset token is invalidated
TokensAfterReset_UsedOnly(t) == [tokens EXCEPT ![t].invalidated = TRUE]

\* auth.service.ts resetPassword: the Token table after its two invalidating writes
TokensAfterReset(t) ==
    [i \in TokenIds |->
        IF i = t \/ (tokens[i].userId = tokens[t].userId
                     /\ tokens[i].type \in {"ACCESS", "REFRESH"} /\ ~tokens[i].invalidated)
        THEN [tokens[i] EXCEPT !.invalidated = TRUE] ELSE tokens[i]]

\* auth.service.ts resetPassword
ResetPassword(t, newPassword, confirmPassword) ==
    /\ IF t \notin TokenIds \/ tokens[t].type # "PASSWORD_RESET" \/ tokens[t].invalidated
       THEN /\ resp' = Response("resetPassword", "UNAUTHORIZED", "Invalid or expired password reset token")
            /\ UNCHANGED <<users, tokens>>
       ELSE IF now > tokens[t].expiresAt
       THEN /\ tokens' = [tokens EXCEPT ![t].invalidated = TRUE]
            /\ resp' = Response("resetPassword", "UNAUTHORIZED", "Password reset token has expired")
            /\ UNCHANGED users
       ELSE IF newPassword # confirmPassword
       THEN /\ resp' = Response("resetPassword", "BAD_REQUEST", "Passwords do not match")
            /\ UNCHANGED <<users, tokens>>
       ELSE IF ~users[tokens[t].userId].exists \/ ~users[tokens[t].userId].isActive
       THEN /\ resp' = Response("resetPassword", "NOT_FOUND", "User not found or inactive")
            /\ UNCHANGED <<users, tokens>>
       ELSE /\ users' = [users EXCEPT ![tokens[t].userId].password = Hash(newPassword)]
            /\ tokens' = TokensAfterReset(t)
            /\ resp' = [Response("resetPassword", "OK", "Password has been reset successfully")
                            EXCEPT !.email = tokens[t].userId, !.token = t,
                                   !.log = {ActivityRow("PASSWORD_RESET", tokens[t].userId)}]
    /\ reqUser' = NULL
    /\ failedRun' = NoRun
    /\ UNCHANGED <<now, secretsEqual, procs, rp, rf, secVars, notifVars>>

\* faulty variant of deleteUser: the timestamp is set, isActive is left alone
DeleteUser_TimestampOnly(id) ==
    /\ IF ~users[id].exists
       THEN /\ resp' = Response("deleteUser", "NOT_FOUND", "User not found")
            /\ UNCHANGED users
       ELSE /\ users' = [users EXCEPT ![id].deletedAt = now]
            /\ resp' = [Response("deleteUser", "OK", "") EXCEPT !.email = id]
    /\ reqUser' = NULL
    /\ failedRun' = NoRun
    /\ UNCHANGED <<tokens, now, secretsEqual, procs, rp, rf, secVars, notifVars>>

\* user.service.ts deleteUser: the row is updated, never removed
DeleteUser(id) ==
    /\ IF ~users[id].exists
       THEN /\ resp' = Response("deleteUser", "NOT_FOUND", "User not found")
            /\ UNCHANGED users
       ELSE /\ users' = [users EXCEPT ![id].deletedAt = now, ![id].isActive = FALSE]
            /\ resp' = [Response("deleteUser", "OK", "") EXCEPT !.email = id]
    /\ reqUser' = NULL
    /\ failedRun' = NoRun
    /\ UNCHANGED <<tokens, now, secretsEqual, procs, rp, rf, secVars, notifVars>>

\* user.service.ts toggleUserStatus
ToggleUserStatus(id) ==
    /\ IF ~users[id].exists
       THEN /\ resp' = Response("toggleUserStatus", "NOT_FOUND", "User not found")
            /\ UNCHANGED users
       ELSE /\ users' = [users EXCEPT ![id].isActive = ~@]
            /\ resp' = Response("toggleUserStatus", "OK", "")
    /\ reqUser' = NULL
    /\ failedRun' = NoRun
    /\ UNCHANGED <<tokens, now, secretsEqual, procs, rp, rf, secVars, notifVars>>

\* faulty variant of changePassword: the current password is not verified
ChangeResult_NoCurrentCheck(userId, currentPassword, newPassword, confirmPassword) ==
    IF ~users[userId].exists THEN "User not found"
    ELSE IF Compare(newPassword, users[userId].password)
         THEN "New password must be different from current password"
    ELSE IF newPassword # confirmPassword THEN "Please confirm the new password"
    ELSE "ok"

\* auth.service.ts changePassword: the error it throws, "ok" when it stores
\* the new hash
ChangeResult(userId, currentPassword, newPassword, confirmPassword) ==
    IF ~users[userId].exists THEN "User not found"
    ELSE IF ~Compare(currentPassword, users[userId].password) THEN "Current password is incorrect"
    ELSE IF Compare(newPassword, users[userId].password)
         THEN "New password must be different from current password"
    ELSE IF newPassword # confirmPassword THEN "Please confirm the new password"
    ELSE "ok"

\* status class of a changePassword error
ChangeStatus(msg) ==
    IF msg = "ok" THEN "OK"
    ELSE IF msg = "User not found" THEN "NOT_FOUND"
    ELSE IF msg = "Current password is incorrect" THEN "UNAUTHORIZED"
    ELSE "BAD_REQUEST"

\* POST /auth/change-password: authenticate, then auth.service.ts changePassword
ChangePassword(t, currentPassword, newPassword, confirmPassword) ==
    LET checked == IF ReachedLockCheck(t) THEN UsersAfterLockCheck(tokens[t].userId) ELSE users
        userId == tokens[t].userId
        result == ChangeResult(userId, currentPassword, newPassword, confirmPassword)
    IN
    /\ IF AuthResult(t) # "ok"
       THEN /\ resp' = [Response("changePassword", AuthStatus(AuthResult(t)), AuthResult(t))
                            EXCEPT !.token = t]
            /\ reqUser' = NULL
            /\ users' = checked
       ELSE /\ reqUser' = [id |-> userId, tokenId |-> tokens[t].tokenId]
            /\ resp' = [Response("changePassword", ChangeStatus(result),
                                 IF result = "ok" THEN "Password changed successfully" ELSE result)
                            EXCEPT !.token = t, !.email = userId,
                                   !.log = IF result = "ok"
                                           THEN {ActivityRow("PASSWORD_CHANGE", userId)} ELSE {}]
            /\ users' = IF result = "ok"
                        THEN [checked EXCEPT ![userId].password = Hash(newPassword)]
                        ELSE checked
    /\ failedRun' = NoRun
    /\ UNCHANGED <<tokens, now, secretsEqual, procs, rp, rf, secVars, notifVars>>

\* ---- auth.service.ts resetPassword, one action per write of the flow ------

\* the reads and checks of resetPassword (an expired token is invalidated and
\* the request rejected in the same step)
RpStart(t, newPassword, confirmPassword) ==
    /\ rp.pc = "idle"
    /\ IF t \notin TokenIds \/ tokens[t].type # "PASSWORD_RESET" \/ tokens[t].invalidated
       THEN /\ resp' = Response("resetPassword", "UNAUTHORIZED", "Invalid or expired password reset token")
            /\ UNCHANGED <<tokens, rp>>
       ELSE IF now > tokens[t].expiresAt
       THEN /\ tokens' = [tokens EXCEPT ![t].invalidated = TRUE]
            /\ resp' = Response("resetPassword", "UNAUTHORIZED", "Password reset token has expired")
            /\ UNCHANGED rp
       ELSE IF newPassword # confirmPassword
       THEN /\ resp' = Response("resetPassword", "BAD_REQUEST", "Passwords do not match")
            /\ UNCHANGED <<tokens, rp>>
       ELSE IF ~users[tokens[t].userId].exists \/ ~users[tokens[t].userId].isActive
       THEN /\ resp' = Response("resetPassword", "NOT_FOUND", "User not found or inactive")
            /\ UNCHANGED <<tokens, rp>>
       ELSE /\ rp' = [pc |-> "updateUser", token |-> t, user |-> tokens[t].userId,
                      password |-> newPassword]
            /\ UNCHANGED <<tokens, resp>>
    /\ reqUser' = NULL
    /\ failedRun' = NoRun
    /\ UNCHANGED <<users, now, secretsEqual, procs, rf, secVars, notifVars>>

\* user.update of the password hash
RpUpdateUser ==
    /\ rp.pc = "updateUser"
    /\ users' = [users EXCEPT ![rp.user].password = Hash(rp.password)]
    /\ rp' = [rp EXCEPT !.pc = "invalidateUsed"]
    /\ UNCHANGED <<tokens, now, secretsEqual, procs, resp, reqUser, rf, failedRun, secVars, notifVars>>

\* token.update of the used reset token
RpInvalidateUsed ==
    /\ rp.pc = "invalidateUsed"
    /\ tokens' = [tokens EXCEPT ![rp.token].invalidated = TRUE]
    /\ rp' = [rp EXCEPT !.pc = "invalidateSessions"]
    /\ UNCHANGED <<users, now, secretsEqual, procs, resp, reqUser, rf, failedRun, secVars, notifVars>>

\* faulty variant of the last write of resetPassword: the flag of every record
\* is rewritten to "is a session token of the user"
RpInvalidateSessions_Rewrite ==
    /\ rp.pc = "invalidateSessions"
    /\ tokens' = [i \in TokenIds |->
            [tokens[i] EXCEPT !.invalidated =
                tokens[i].userId = rp.user /\ tokens[i].type \in {"ACCESS", "REFRESH"}]]
    /\ resp' = [Response("resetPassword", "OK", "Password has been reset successfully")
                    EXCEPT !.email = rp.user, !.token = rp.token,
                           !.log = {ActivityRow("PASSWORD_RESET", rp.user)}]
    /\ rp' = NoReset
    /\ UNCHANGED <<users, now, secretsEqual, procs, reqUser, rf, failedRun, secVars, notifVars>>

\* token.updateMany of the user's ACCESS and REFRESH tokens, the activity log
\* entry and the result
RpInvalidateSessions ==
    /\ rp.pc = "invalidateSessions"
    /\ tokens' = [i \in TokenIds |->
            IF tokens[i].userId = rp.user /\ tokens[i].type \in {"ACCESS", "REFRESH"}
               /\ ~tokens[i].invalidated
            THEN [tokens[i] EXCEPT !.invalidated = TRUE] ELSE tokens[i]]
    /\ resp' = [Response("resetPassword", "OK", "Password has been reset successfully")
                    EXCEPT !.email = rp.user, !.token = rp.token,
                           !.log = {ActivityRow("PASSWORD_RESET", rp.user)}]
    /\ rp' = NoReset
    /\ UNCHANGED <<users, now, secretsEqual, procs, reqUser, rf, failedRun, secVars, notifVars>>

\* a store call of the flow rejects: nothing catches it, the request fails
\* and the writes already made stay
RpFail ==
    /\ rp.pc \in {"updateUser", "invalidateUsed", "invalidateSessions"}
    /\ resp' = [Response("resetPassword", "INTERNAL_SERVER_ERROR", "An unexpected error occurred.")
                    EXCEPT !.email = rp.user, !.token = rp.token]
    /\ rp' = NoReset
    /\ UNCHANGED <<users, tokens, now, secretsEqual, procs, reqUser, rf, failedRun, secVars, notifVars>>

ResetStep ==
    \/ \E t \in 0..MaxTokens, p \in Passwords, c \in Passwords : RpStart(t, p, c)
    \/ RpUpdateUser
    \/ RpInvalidateUsed
    \/ RpInvalidateSessions
    \/ RpFail

\* ---- auth.service.ts refreshToken, one action per await of the flow -------

\* findUnique of the presented token, and the checks made on the record
RfLookup(t) ==
    /\ rf.pc = "idle"
    /\ IF t = NULL
       THEN /\ resp' = [Response("refreshToken", "BAD_REQUEST", "Refresh token is required")
                            EXCEPT !.token = t]
            /\ UNCHANGED rf
       ELSE IF t \notin TokenIds \/ tokens[t].type # "REFRESH" \/ tokens[t].invalidated
       THEN /\ resp' = [Response("refreshToken", "UNAUTHORIZED", "Invalid refresh token")
                            EXCEPT !.token = t]
            /\ UNCHANGED rf
       ELSE IF now > tokens[t].expiresAt
       THEN /\ rf' = [Idle EXCEPT !.pc = "expire", !.old = t]
            /\ UNCHANGED resp
       ELSE /\ rf' = [Idle EXCEPT !.pc = "getUser", !.old = t]
            /\ UNCHANGED resp
    /\ reqUser' = NULL
    /\ failedRun' = NoRun
    /\ UNCHANGED <<users, tokens, now, secretsEqual, procs, rp, secVars, notifVars>>

\* faulty variant of the expired branch: the record is not invalidated
RfExpire_NoInvalidate ==
    /\ rf.pc = "expire"
    /\ resp' = [Response("refreshToken", "UNAUTHORIZED", "Refresh token expired")
                    EXCEPT !.token = rf.old]
    /\ rf' = Idle
    /\ UNCHANGED <<users, tokens, now, secretsEqual, procs, rp, reqUser, failedRun, secVars, notifVars>>

\* the expired record is invalidated and the request rejected
RfExpire ==
    /\ rf.pc = "expire"
    /\ tokens' = [tokens EXCEPT ![rf.old].invalidated = TRUE]
    /\ resp' = [Response("refreshToken", "UNAUTHORIZED", "Refresh token expired")
                    EXCEPT !.token = rf.old]
    /\ rf' = Idle
    /\ UNCHANGED <<users, now, secretsEqual, procs, rp, reqUser, failedRun, secVars, notifVars>>

\* findUnique of the owner
RfGetUser ==
    /\ rf.pc = "getUser"
    /\ IF ~users[tokens[rf.old].userId].exists \/ ~users[tokens[rf.old].userId].isActive
       THEN /\ resp' = [Response("refreshToken", "UNAUTHORIZED", "User not found or inactive")
                            EXCEPT !.token = rf.old]
            /\ rf' = Idle
       ELSE /\ rf' = [rf EXCEPT !.pc = "createAccess", !.user = tokens[rf.old].userId]
            /\ UNCHANGED resp
    /\ UNCHANGED <<users, tokens, now, secretsEqual, procs, rp, reqUser, failedRun, secVars, notifVars>>

\* create of the new access token record
RfCreateAccess ==
    /\ rf.pc = "createAccess"
    /\ Len(tokens) + 2 <= MaxTokens + 2 * MaxRotations
    /\ tokens' = Append(tokens, NewToken("ACCESS", rf.user, NoToken))
    /\ rf' = [rf EXCEPT !.pc = "createRefresh", !.access = Len(tokens) + 1]
    /\ UNCHANGED <<users, now, secretsEqual, procs, rp, resp, reqUser, failedRun, secVars, notifVars>>

\* create of the new refresh token record
RfCreateRefresh ==
    /\ rf.pc = "createRefresh"
    /\ Len(tokens) < MaxTokens + 2 * MaxRotations
    /\ tokens' = Append(tokens, NewToken("REFRESH", rf.user, rf.access))
    /\ rf' = [rf EXCEPT !.pc = "invalidateOld", !.refresh = Len(tokens) + 1]
    /\ UNCHANGED <<users, now, secretsEqual, procs, rp, resp, reqUser, failedRun, secVars, notifVars>>

\* update of the old refresh token record
RfInvalidateOld ==
    /\ rf.pc = "invalidateOld"
    /\ tokens' = [tokens EXCEPT ![rf.old].invalidated = TRUE]
    /\ rf' = [rf EXCEPT !.pc = "touch"]
    /\ UNCHANGED <<users, now, secretsEqual, procs, rp, resp, reqUser, failedRun, secVars, notifVars>>

\* updateMany of lastUsed (a field outside the model) and the activity log
\* entry, then the result goes back to the controller
RfFinish ==
    /\ rf.pc = "touch"
    /\ resp' = [Response("refreshToken", "OK", "Token refreshed successfully") EXCEPT
                    !.email = rf.user, !.accessToken = rf.access, !.refreshToken = rf.refresh,
                    !.cookies = {"access_token", "refresh_token"},
                    !.log = {ActivityRow("TOKEN_REFRESH", rf.user)}]
    /\ rf' = Idle
    /\ UNCHANGED <<users, tokens, now, secretsEqual, procs, rp, reqUser, failedRun, secVars, notifVars>>

\* a store call of the flow rejects: nothing catches it, the request fails
RfFail ==
    /\ rf.pc \in {"createAccess", "createRefresh", "invalidateOld", "touch"}
    /\ resp' = Response("refreshToken", "INTERNAL_SERVER_ERROR", "An unexpected error occurred.")
    /\ rf' = Idle
    /\ UNCHANGED <<users, tokens, now, secretsEqual, procs, rp, reqUser, failedRun, secVars, notifVars>>

RefreshStep ==
    \/ \E t \in (0..MaxTokens + 2 * MaxRotations) \cup {NULL} : RfLookup(t)
    \/ RfExpire
    \/ RfGetUser
    \/ RfCreateAccess
    \/ RfCreateRefresh
    \/ RfInvalidateOld
    \/ RfFinish
    \/ RfFail

\* ---- auth.service.ts refreshToken, several calls in flight -----------------

\* the locals of one refreshToken call
RefreshCall(t) ==
    [op |-> "refreshToken", pc |-> "find", tokenRecord |-> t, user |-> 0,
     accessTokenRecord |-> NoToken, refreshTokenRecord |-> NoToken, result |-> "none"]

\* Token.token is unique: jwt.sign of the same payload in the same second
\* (same iat, hence same exp) returns the same string, and token.create of a
\* string that a row already holds is rejected
TokenStringTaken(rec) ==
    \E i \in TokenIds :
        /\ tokens[i].type = rec.type
        /\ tokens[i].userId = rec.userId
        /\ tokens[i].tokenId = rec.tokenId
        /\ tokens[i].expiresAt = rec.expiresAt

\* token.findUnique by the presented string and the checks on the record
RefreshTokenFind(p, t) ==
    /\ procs[p] = NoCall
    /\ t \in TokenIds
    /\ IF tokens[t].type # "REFRESH" \/ tokens[t].invalidated
       THEN /\ procs' = [procs EXCEPT ![p] = [RefreshCall(t) EXCEPT
                            !.pc = "done", !.result = "Invalid refresh token"]]
            /\ resp' = [Response("refreshToken", "UNAUTHORIZED", "Invalid refresh token")
                            EXCEPT !.token = t]
       ELSE /\ procs' = [procs EXCEPT ![p] = [RefreshCall(t) EXCEPT
                            !.pc = IF now > tokens[t].expiresAt THEN "expire" ELSE "getUser"]]
            /\ UNCHANGED resp
    /\ reqUser' = NULL
    /\ failedRun' = NoRun
    /\ UNCHANGED <<users, tokens, now, secretsEqual, rp, rf,
                   loginAttempts, sessions, cleanupInterval, timers, notifVars>>

\* the expired record is invalidated and the call rejected
RefreshTokenExpire(p) ==
    /\ procs[p].op = "refreshToken"
    /\ procs[p].pc = "expire"
    /\ tokens' = [tokens EXCEPT ![procs[p].tokenRecord].invalidated = TRUE]
    /\ procs' = [procs EXCEPT ![p].pc = "done", ![p].result = "Refresh token expired"]
    /\ resp' = [Response("refreshToken", "UNAUTHORIZED", "Refresh token expired")
                    EXCEPT !.token = procs[p].tokenRecord]
    /\ UNCHANGED <<users, now, secretsEqual, rp, rf, reqUser, failedRun,
                   loginAttempts, sessions, cleanupInterval, timers, notifVars>>

\* user.findUnique and the isActive check
RefreshTokenGetUser(p) ==
    /\ procs[p].op = "refreshToken"
    /\ procs[p].pc = "getUser"
    /\ LET userId == tokens[procs[p].tokenRecord].userId IN
       IF userId \notin Users \/ ~users[userId].exists \/ ~users[userId].isActive
       THEN /\ procs' = [procs EXCEPT ![p].pc = "done",
                                      ![p].result = "User not found or inactive"]
            /\ resp' = [Response("refreshToken", "UNAUTHORIZED", "User not found or inactive")
                            EXCEPT !.token = procs[p].tokenRecord]
       ELSE /\ procs' = [procs EXCEPT ![p].pc = "createAccess", ![p].user = userId]
            /\ UNCHANGED resp
    /\ UNCHANGED <<users, tokens, now, secretsEqual, rp, rf, reqUser, failedRun,
                   loginAttempts, sessions, cleanupInterval, timers, notifVars>>

\* generateToken(ACCESS) and token.create of the access record
RefreshTokenCreateAccess(p) ==
    /\ procs[p].op = "refreshToken"
    /\ procs[p].pc = "createAccess"
    /\ Len(tokens) < MaxTokens + 2 * NumProcs
    /\ IF TokenStringTaken(NewToken("ACCESS", procs[p].user, NoToken))
       THEN /\ procs' = [procs EXCEPT ![p].pc = "done",
                                      ![p].result = "An unexpected error occurred."]
            /\ resp' = [Response("refreshToken", "INTERNAL_SERVER_ERROR",
                                 "An unexpected error occurred.")
                            EXCEPT !.token = procs[p].tokenRecord]
            /\ UNCHANGED tokens
       ELSE /\ tokens' = Append(tokens, NewToken("ACCESS", procs[p].user, NoToken))
            /\ procs' = [procs EXCEPT ![p].pc = "createRefresh",
                                      ![p].accessTokenRecord = Len(tokens) + 1]
            /\ UNCHANGED resp
    /\ UNCHANGED <<users, now, secretsEqual, rp, rf, reqUser, failedRun,
                   loginAttempts, sessions, cleanupInterval, timers, notifVars>>

\* generateToken(REFRESH, tokenId: accessTokenRecord.id) and token.create
RefreshTokenCreateRefresh(p) ==
    /\ procs[p].op = "refreshToken"
    /\ procs[p].pc = "createRefresh"
    /\ Len(tokens) < MaxTokens + 2 * NumProcs
    /\ tokens' = Append(tokens, NewToken("REFRESH", procs[p].user, procs[p].accessTokenRecord))
    /\ procs' = [procs EXCEPT ![p].pc = "invalidateOld",
                              ![p].refreshTokenRecord = Len(tokens) + 1]
    /\ UNCHANGED <<users, now, secretsEqual, rp, rf, resp, reqUser, failedRun,
                   loginAttempts, sessions, cleanupInterval, timers, notifVars>>

\* token.update where id = tokenRecord.id: invalidated = true, whatever the
\* row holds by now
RefreshTokenInvalidateOld(p) ==
    /\ procs[p].op = "refreshToken"
    /\ procs[p].pc = "invalidateOld"
    /\ tokens' = [tokens EXCEPT ![procs[p].tokenRecord].invalidated = TRUE]
    /\ procs' = [procs EXCEPT ![p].pc = "return"]
    /\ UNCHANGED <<users, now, secretsEqual, rp, rf, resp, reqUser, failedRun,
                   loginAttempts, sessions, cleanupInterval, timers, notifVars>>

\* updateMany of lastUsed (a field outside the model), the activity log
\* entry, and the new pair goes back to the caller
RefreshTokenReturn(p) ==
    /\ procs[p].op = "refreshToken"
    /\ procs[p].pc = "return"
    /\ procs' = [procs EXCEPT ![p].pc = "done", ![p].result = "ok"]
    /\ resp' = [Response("refreshToken", "OK", "Token refreshed successfully") EXCEPT
                    !.email = procs[p].user, !.token = procs[p].tokenRecord,
                    !.accessToken = procs[p].accessTokenRecord,
                    !.refreshToken = procs[p].refreshTokenRecord,
                    !.cookies = {"access_token", "refresh_token"},
                    !.log = {ActivityRow("TOKEN_REFRESH", procs[p].user)}]
    /\ UNCHANGED <<users, tokens, now, secretsEqual, rp, rf, reqUser, failedRun,
                   loginAttempts, sessions, cleanupInterval, timers, notifVars>>

\* ---- auth.service.ts login, at the granularity of its store calls ----------

\* user.findUnique and the checks on the row it returned (bcrypt.compare runs
\* on the password hash of that row); verified is that hash
LoginFindUser(p, email, password, rememberMe) ==
    /\ procs[p] = NoCall
    /\ procs' = [procs EXCEPT ![p] =
            [op |-> "login",
             pc |-> IF LoginResult(email, password) = "ok" THEN "createAccess" ELSE "done",
             user |-> email, rememberMe |-> rememberMe,
             verified |-> users[email].password,
             accessTokenRecord |-> NoToken, refreshTokenRecord |-> NoToken,
             result |-> IF LoginResult(email, password) = "ok"
                        THEN "none" ELSE LoginResult(email, password)]]
    /\ resp' = IF LoginResult(email, password) = "ok" THEN resp
               ELSE [Response("login", LoginStatus(LoginResult(email, password)),
                              LoginResult(email, password)) EXCEPT !.email = email]
    /\ reqUser' = NULL
    /\ failedRun' = NoRun
    /\ UNCHANGED <<users, tokens, now, secretsEqual, rp, rf,
                   loginAttempts, sessions, cleanupInterval, timers, notifVars>>

\* generateToken(ACCESS) and token.create of the access record
LoginCreateAccess(p) ==
    /\ procs[p].op = "login"
    /\ procs[p].pc = "createAccess"
    /\ Len(tokens) < MaxTokens + 2 * NumProcs
    /\ IF TokenStringTaken(NewToken("ACCESS", procs[p].user, NoToken))
       THEN /\ procs' = [procs EXCEPT ![p].pc = "done",
                                      ![p].result = "An unexpected error occurred."]
            /\ resp' = [Response("login", "INTERNAL_SERVER_ERROR",
                                 "An unexpected error occurred.")
                            EXCEPT !.email = procs[p].user]
            /\ UNCHANGED tokens
       ELSE /\ tokens' = Append(tokens, NewToken("ACCESS", procs[p].user, NoToken))
            /\ procs' = [procs EXCEPT
                            ![p].pc = IF procs[p].rememberMe THEN "createRefresh" ELSE "return",
                            ![p].accessTokenRecord = Len(tokens) + 1]
            /\ UNCHANGED resp
    /\ UNCHANGED <<users, now, secretsEqual, rp, rf, reqUser, failedRun,
                   loginAttempts, sessions, cleanupInterval, timers, notifVars>>

\* rememberMe: generateToken(REFRESH, tokenId: accessTokenRecord.id) and
\* token.create
LoginCreateRefresh(p) ==
    /\ procs[p].op = "login"
    /\ procs[p].pc = "createRefresh"
    /\ Len(tokens) < MaxTokens + 2 * NumProcs
    /\ tokens' = Append(tokens, NewToken("REFRESH", procs[p].user, procs[p].accessTokenRecord))
    /\ procs' = [procs EXCEPT ![p].pc = "return", ![p].refreshTokenRecord = Len(tokens) + 1]
    /\ UNCHANGED <<users, now, secretsEqual, rp, rf, resp, reqUser, failedRun,
                   loginAttempts, sessions, cleanupInterval, timers, notifVars>>

\* user.update of lastLogin (a field outside the model), the activity log
\* entry, and the tokens go back to the caller
LoginReturn(p) ==
    /\ procs[p].op = "login"
    /\ procs[p].pc = "return"
    /\ procs' = [procs EXCEPT ![p].pc = "done", ![p].result = "ok"]
    /\ resp' = [Response("login", "OK", "Login successful") EXCEPT
                    !.email = procs[p].user,
                    !.accessToken = procs[p].accessTokenRecord,
                    !.refreshToken = procs[p].refreshTokenRecord,
                    !.cookies = LoginCookies(procs[p].rememberMe),
                    !.log = {ActivityRow("LOGIN", procs[p].user)}]
    /\ UNCHANGED <<users, tokens, now, secretsEqual, rp, rf, reqUser, failedRun,
                   loginAttempts, sessions, cleanupInterval, timers, notifVars>>

\* ---- security.service.ts SecurityService ----------------------------------

\* loginAttempt.count: failed attempts of the user inside the trailing window
RecentAttempts_AllTime(userId) ==
    Cardinality({i \in 1..Len(loginAttempts) :
        /\ loginAttempts[i].userId = userId
        /\ ~loginAttempts[i].success})

RecentAttempts(userId) ==
    Cardinality({i \in 1..Len(loginAttempts) :
        /\ loginAttempts[i].userId = userId
        /\ ~loginAttempts[i].success
        /\ loginAttempts[i].createdAt >= now - LoginAttemptWindow})

\* lockAccount
LockAccount(userId) ==
    [users EXCEPT ![userId].isLocked = TRUE,
                  ![userId].lockoutExpiry = now + AccountLockoutDuration]

\* handleFailedLoginAttempt
HandleFailedLoginAttempt(email) ==
    /\ IF ~users[email].exists
       THEN /\ resp' = Response("handleFailedLoginAttempt", "OK", "")
            /\ UNCHANGED <<users, loginAttempts>>
       ELSE /\ Len(loginAttempts) < MaxAttempts
            /\ loginAttempts' = Append(loginAttempts,
                    [userId |-> email, success |-> FALSE, createdAt |-> now])
            /\ IF RecentAttempts(email) + 1 >= MaxLoginAttempts
               THEN /\ users' = LockAccount(email)
                    /\ resp' = [Response("handleFailedLoginAttempt", "TOO_MANY_REQUESTS",
                                    "Account locked due to too many failed attempts")
                                EXCEPT !.email = email]
               ELSE /\ resp' = [Response("handleFailedLoginAttempt", "OK", "") EXCEPT !.email = email]
                    /\ UNCHANGED users
    /\ reqUser' = NULL
    /\ failedRun' = NoRun
    /\ UNCHANGED <<tokens, now, secretsEqual, procs, rp, rf, sessions, notifVars, cleanupInterval, timers>>

\* handleSuccessfulLogin
HandleSuccessfulLogin(userId) ==
    /\ users[userId].exists
    /\ loginAttempts' = SelectSeq(Append(loginAttempts,
            [userId |-> userId, success |-> TRUE, createdAt |-> now]),
            LAMBDA a : ~(a.userId = userId /\ ~a.success))
    /\ Len(loginAttempts') <= MaxAttempts
    /\ resp' = [Response("handleSuccessfulLogin", "OK", "") EXCEPT !.email = userId]
    /\ reqUser' = NULL
    /\ failedRun' = NoRun
    /\ UNCHANGED <<users, tokens, now, secretsEqual, procs, rp, rf, sessions, notifVars,
                   cleanupInterval, timers>>

\* a call of isAccountLocked; the message carries the boolean returned
LockCheck(userId) ==
    /\ resp' = [Response("isAccountLocked", "OK",
                    IF IsAccountLocked(userId) THEN "true" ELSE "false")
                EXCEPT !.email = userId]
    /\ users' = UsersAfterLockCheck(userId)
    /\ reqUser' = NULL
    /\ failedRun' = NoRun
    /\ UNCHANGED <<tokens, now, secretsEqual, procs, rp, rf, secVars, notifVars>>

SessionsOf(userId) == {x \in sessions : x.userId = userId}

\* faulty variant of the eviction: slice(max) instead of slice(max - 1)
Retained_KeepMax(userId, keep) ==
    /\ keep \subseteq SessionsOf(userId)
    /\ IF Cardinality(SessionsOf(userId)) >= MaxConcurrentSessions
       THEN /\ Cardinality(keep) = MaxConcurrentSessions
            /\ \A a \in keep, b \in SessionsOf(userId) \ keep : a.lastActive >= b.lastActive
       ELSE keep = SessionsOf(userId)

\* manageSessions: the sessions that survive the eviction, for one order in
\* which findMany (lastActive desc) may return sessions of equal lastActive
Retained(userId, keep) ==
    /\ keep \subseteq SessionsOf(userId)
    /\ IF Cardinality(SessionsOf(userId)) >= MaxConcurrentSessions
       THEN /\ Cardinality(keep) = MaxConcurrentSessions - 1
            /\ \A a \in keep, b \in SessionsOf(userId) \ keep : a.lastActive >= b.lastActive
       ELSE keep = SessionsOf(userId)

\* manageSessions; session.create rejects an id that is already a primary key
ManageSessions(userId, newSessionId) ==
    /\ users[userId].exists
    /\ \E keep \in SUBSET SessionsOf(userId) :
        /\ Retained(userId, keep)
        /\ LET afterDelete == (sessions \ SessionsOf(userId)) \cup keep IN
           IF \E x \in afterDelete : x.id = newSessionId
           THEN /\ sessions' = afterDelete
                /\ resp' = Response("manageSessions", "INTERNAL_SERVER_ERROR", "An unexpected error occurred.")
           ELSE /\ sessions' = afterDelete \cup
                        {[id |-> newSessionId, userId |-> userId, lastActive |-> now]}
                /\ resp' = [Response("manageSessions", "OK", "") EXCEPT !.email = userId]
    /\ reqUser' = NULL
    /\ failedRun' = NoRun
    /\ UNCHANGED <<users, tokens, now, secretsEqual, procs, rp, rf, loginAttempts, notifVars,
                   cleanupInterval, timers>>

\* ---- security.service.ts, several calls in flight --------------------------

\* handleFailedLoginAttempt: user.findUnique by email; windowStart is computed
\* from the clock read right after it
FailedAttemptFindUser(p, email) ==
    /\ Finished(p)
    /\ procs' = [procs EXCEPT ![p] =
            IF ~users[email].exists
            THEN [op |-> "handleFailedLoginAttempt", pc |-> "done", user |-> email,
                  windowStart |-> 0, recentAttempts |-> 0, result |-> "ok"]
            ELSE [op |-> "handleFailedLoginAttempt", pc |-> "count", user |-> email,
                  windowStart |-> now - LoginAttemptWindow, recentAttempts |-> 0,
                  result |-> "none"]]
    /\ UNCHANGED <<users, tokens, now, secretsEqual, rp, rf, resp, reqUser, failedRun,
                   loginAttempts, sessions, cleanupInterval, timers, notifVars>>

\* loginAttempt.count of the failed attempts since windowStart
FailedAttemptCount(p) ==
    /\ procs[p].op = "handleFailedLoginAttempt"
    /\ procs[p].pc = "count"
    /\ procs' = [procs EXCEPT ![p].pc = "create",
                              ![p].recentAttempts =
                                  Cardinality({i \in 1..Len(loginAttempts) :
                                      /\ loginAttempts[i].userId = procs[p].user
                                      /\ ~loginAttempts[i].success
                                      /\ loginAttempts[i].createdAt >= procs[p].windowStart})]
    /\ UNCHANGED <<users, tokens, now, secretsEqual, rp, rf, resp, reqUser, failedRun,
                   loginAttempts, sessions, cleanupInterval, timers, notifVars>>

\* loginAttempt.create, then the comparison of the count read before with
\* maxLoginAttempts
FailedAttemptCreate(p) ==
    /\ procs[p].op = "handleFailedLoginAttempt"
    /\ procs[p].pc = "create"
    /\ Len(loginAttempts) < MaxAttempts
    /\ loginAttempts' = Append(loginAttempts,
            [userId |-> procs[p].user, success |-> FALSE, createdAt |-> now])
    /\ IF procs[p].recentAttempts + 1 >= MaxLoginAttempts
       THEN /\ procs' = [procs EXCEPT ![p].pc = "lock"]
            /\ UNCHANGED resp
       ELSE /\ procs' = [procs EXCEPT ![p].pc = "done", ![p].result = "ok"]
            /\ resp' = [Response("handleFailedLoginAttempt", "OK", "")
                            EXCEPT !.email = procs[p].user]
    /\ UNCHANGED <<users, tokens, now, secretsEqual, rp, rf, reqUser, failedRun,
                   sessions, cleanupInterval, timers, notifVars>>

\* lockAccount and the TooManyRequests error
FailedAttemptLock(p) ==
    /\ procs[p].op = "handleFailedLoginAttempt"
    /\ procs[p].pc = "lock"
    /\ users' = LockAccount(procs[p].user)
    /\ procs' = [procs EXCEPT ![p].pc = "done", ![p].result = "locked"]
    /\ resp' = [Response("handleFailedLoginAttempt", "TOO_MANY_REQUESTS",
                         "Account locked due to too many failed attempts")
                    EXCEPT !.email = procs[p].user]
    /\ UNCHANGED <<tokens, now, secretsEqual, rp, rf, reqUser, failedRun,
                   loginAttempts, sessions, cleanupInterval, timers, notifVars>>

\* manageSessions: session.findMany of the user (lastActive desc) and the
\* slice of the list it returned
ManageSessionsFind(p, userId, newSessionId) ==
    /\ Finished(p)
    /\ \E keep \in SUBSET SessionsOf(userId) :
        /\ Retained(userId, keep)
        /\ procs' = [procs EXCEPT ![p] =
                [op |-> "manageSessions",
                 pc |-> IF Cardinality(SessionsOf(userId)) >= MaxConcurrentSessions
                        THEN "deleteMany" ELSE "create",
                 userId |-> userId, newSessionId |-> newSessionId,
                 sessionsToRemove |-> {x.id : x \in SessionsOf(userId) \ keep},
                 result |-> "none"]]
    /\ UNCHANGED <<users, tokens, now, secretsEqual, rp, rf, resp, reqUser, failedRun,
                   loginAttempts, sessions, cleanupInterval, timers, notifVars>>

\* session.deleteMany of the ids sliced off
ManageSessionsDeleteMany(p) ==
    /\ procs[p].op = "manageSessions"
    /\ procs[p].pc = "deleteMany"
    /\ sessions' = {x \in sessions : x.id \notin procs[p].sessionsToRemove}
    /\ procs' = [procs EXCEPT ![p].pc = "create"]
    /\ UNCHANGED <<users, tokens, now, secretsEqual, rp, rf, resp, reqUser, failedRun,
                   loginAttempts, cleanupInterval, timers, notifVars>>

\* session.create of the new session; an id that is still a primary key of
\* the table is rejected
ManageSessionsCreate(p) ==
    /\ procs[p].op = "manageSessions"
    /\ procs[p].pc = "create"
    /\ IF \E x \in sessions : x.id = procs[p].newSessionId
       THEN /\ procs' = [procs EXCEPT ![p].pc = "done", ![p].result = "error"]
            /\ resp' = Response("manageSessions", "INTERNAL_SERVER_ERROR",
                                "An unexpected error occurred.")
            /\ UNCHANGED sessions
       ELSE /\ sessions' = sessions \cup
                    {[id |-> procs[p].newSessionId, userId |-> procs[p].userId,
                      lastActive |-> now]}
            /\ procs' = [procs EXCEPT ![p].pc = "done", ![p].result = "ok"]
            /\ resp' = [Response("manageSessions", "OK", "") EXCEPT !.email = procs[p].userId]
    /\ UNCHANGED <<users, tokens, now, secretsEqual, rp, rf, reqUser, failedRun,
                   loginAttempts, cleanupInterval, timers, notifVars>>

\* ---- security.service.ts rotateRefreshToken --------------------------------

\* faulty variant of the rotation: the new record is created, the old one is
\* left as it was
TokensAfterRotate_NoInvalidate(old, expiresAt) ==
    Append(tokens,
           [type |-> tokens[old].type, userId |-> tokens[old].userId, expiresAt |-> expiresAt,
            invalidated |-> FALSE, tokenId |-> NoToken])

\* the two writes of the $transaction array: token.update of the old record
\* and token.create of the new one with the type and owner of the old
TokensAfterRotate(old, expiresAt) ==
    Append([tokens EXCEPT ![old].invalidated = TRUE],
           [type |-> tokens[old].type, userId |-> tokens[old].userId, expiresAt |-> expiresAt,
            invalidated |-> FALSE, tokenId |-> NoToken])

\* SecurityService.rotateRefreshToken(oldToken, newToken, expiresAt): old is
\* the id of the Token object the caller holds; fail names the write that the
\* store rejects (the update of a row that is gone, a create that breaks the
\* unique index on the token string), which rolls the transaction back
RotateRefreshToken(old, expiresAt, fail) ==
    /\ old \in TokenIds
    /\ IF fail = "none" /\ tokens[old].type # "DELETED"
       THEN /\ Len(tokens) < MaxTokens
            /\ tokens' = TokensAfterRotate(old, expiresAt)
            /\ resp' = [Response("rotateRefreshToken", "OK", "") EXCEPT !.token = old]
       ELSE /\ resp' = [Response("rotateRefreshToken", "INTERNAL_SERVER_ERROR",
                                 "An unexpected error occurred.") EXCEPT !.token = old]
            /\ UNCHANGED tokens
    /\ reqUser' = NULL
    /\ failedRun' = NoRun
    /\ UNCHANGED <<users, now, secretsEqual, procs, rp, rf, secVars, notifVars>>

\* ---- cookies: what login stores and what later requests read --------------

\* the cookies a client holds after a login or refresh response: the name
\* under which the controller stored each token, and the token
CookieJar(r) ==
    [n \in r.cookies |-> IF n = "access_token" THEN r.accessToken ELSE r.refreshToken]

\* env.ts extractToken: the bearer header first, then req.cookies.accessToken
ExtractToken(bearer, cookies) ==
    IF bearer # NULL THEN bearer
    ELSE IF "accessToken" \in DOMAIN cookies THEN cookies["accessToken"]
    ELSE NULL

\* auth.controller.ts refreshToken: req.cookies.refreshToken
RefreshCookie(cookies) ==
    IF "refreshToken" \in DOMAIN cookies THEN cookies["refreshToken"] ELSE NULL

\* a request to a protected route that carries no Authorization header, only
\* the cookies of the login that was just answered
CookieRequest ==
    /\ resp.op = "login"
    /\ resp.status = "OK"
    /\ Authenticate(ExtractToken(NULL, CookieJar(resp)))

\* POST /auth/refresh-token with the cookies of the login that was just
\* answered and no Authorization header: authenticate, then the controller
\* hands req.cookies.refreshToken to the service
CookieRefresh ==
    LET jar == CookieJar(resp)
        t == ExtractToken(NULL, jar)
    IN
    /\ resp.op = "login"
    /\ resp.status = "OK"
    /\ IF AuthResult(t) # "ok"
       THEN /\ rf.pc = "idle"
            /\ resp' = [Response("refreshToken", AuthStatus(AuthResult(t)), AuthResult(t))
                            EXCEPT !.token = RefreshCookie(jar)]
            /\ users' = IF ReachedLockCheck(t) THEN UsersAfterLockCheck(tokens[t].userId) ELSE users
            /\ reqUser' = NULL
            /\ failedRun' = NoRun
            /\ UNCHANGED <<tokens, now, secretsEqual, procs, rp, rf, secVars, notifVars>>
       ELSE RfLookup(RefreshCookie(jar))

\* ---- cleanup.service.ts: the cleanup scheduler ------------------------------

\* the timer handles setInterval can return
TimerIds == 1..NumTimers

\* faulty variant of start: no check for a timer that is already scheduled
CleanupStart_NoGuard ==
    /\ \E id \in TimerIds \ timers :
          /\ timers' = timers \cup {id}
          /\ cleanupInterval' = id
    /\ resp' = Response("cleanupService.start", "OK", "Cleanup service started")
    /\ UNCHANGED <<users, tokens, now, secretsEqual, procs, rp, reqUser, rf, failedRun,
                   loginAttempts, sessions, notifVars>>

\* CleanupService.start
CleanupStart ==
    /\ IF cleanupInterval # NULL
       THEN /\ resp' = Response("cleanupService.start", "OK", "Cleanup service is already running")
            /\ UNCHANGED <<cleanupInterval, timers>>
       ELSE /\ \E id \in TimerIds \ timers :
                  /\ timers' = timers \cup {id}
                  /\ cleanupInterval' = id
            /\ resp' = Response("cleanupService.start", "OK", "Cleanup service started")
    /\ UNCHANGED <<users, tokens, now, secretsEqual, procs, rp, reqUser, rf, failedRun,
                   loginAttempts, sessions, notifVars>>

\* CleanupService.stop
CleanupStop ==
    /\ IF cleanupInterval # NULL
       THEN /\ timers' = timers \ {cleanupInterval}
            /\ cleanupInterval' = NULL
            /\ resp' = Response("cleanupService.stop", "OK", "Cleanup service stopped")
       ELSE /\ resp' = Response("cleanupService.stop", "OK", "")
            /\ UNCHANGED <<cleanupInterval, timers>>
    /\ UNCHANGED <<users, tokens, now, secretsEqual, procs, rp, reqUser, rf, failedRun,
                   loginAttempts, sessions, notifVars>>

\* a row of the Token table that deleteMany has removed (ids are never
\* reused, so the position is kept)
DeletedToken ==
    [type |-> "DELETED", userId |-> 0, expiresAt |-> 0, invalidated |-> TRUE, tokenId |-> NoToken]

\* the rows of the Token table
LiveTokens(tk) == {i \in DOMAIN tk : tk[i].type # "DELETED"}

\* faulty variant of the token half of the cleanup: invalidated tokens go too
TokensAfterCleanup_Invalidated(tk) ==
    [i \in DOMAIN tk |->
        IF i \in LiveTokens(tk) /\ (tk[i].expiresAt < now \/ tk[i].invalidated)
        THEN DeletedToken ELSE tk[i]]

\* token.deleteMany({ where: { expiresAt: { lt: now } } })
TokensAfterCleanup(tk) ==
    [i \in DOMAIN tk |->
        IF i \in LiveTokens(tk) /\ tk[i].expiresAt < now THEN DeletedToken ELSE tk[i]]

\* session.deleteMany({ where: { lastActive: { lt: inactiveThreshold } } })
SessionsAfterCleanup(ss) == {x \in ss : ~(x.lastActive < now - InactiveTimeout)}

\* CleanupService.runCleanup, called by the interval timer:
\* cleanupExpiredSessionsAndTokens deletes both in one $transaction; a
\* rejected transaction is caught and logged (cleanupOldLogs works on the
\* log tables, which are outside the model)
RunCleanup(storeOk) ==
    /\ timers # {}
    /\ IF storeOk
       THEN /\ sessions' = SessionsAfterCleanup(sessions)
            /\ tokens' = TokensAfterCleanup(tokens)
            /\ resp' = Response("runCleanup", "OK", "")
       ELSE /\ resp' = Response("runCleanup", "INTERNAL_SERVER_ERROR", "Error during cleanup tasks")
            /\ UNCHANGED <<sessions, tokens>>
    /\ UNCHANGED <<users, now, secretsEqual, procs, rp, reqUser, rf, failedRun, loginAttempts,
                   cleanupInterval, timers, notifVars>>

\* ---- socket.ts: the notification gateway ----------------------------------

\* a handshake token as the gateway sees it: who signed it with which secret,
\* and the id claim of its payload (0 when the payload has none).  Tokens
\* issued by login are signed with the ACCESS secret and carry userId, not id.
HandshakeTokens ==
    {[kind |-> "none", id |-> 0], [kind |-> "garbage", id |-> 0]}
    \cup {[kind |-> "login", id |-> 0]}
    \cup {[kind |-> "socket", id |-> u] : u \in Users}

\* io.use middleware: jwt.verify against config.jwt.socket_secret, then the id claim
HandshakeAccepted(h) ==
    /\ h.kind # "none"
    /\ h.kind # "garbage"
    /\ (h.kind = "login" => secretsEqual)
    /\ h.id # 0

\* io.use + io.on("connection")
Connect(sock, h) ==
    /\ socketUser[sock] = 0
    /\ IF HandshakeAccepted(h)
       THEN /\ socketUser' = [socketUser EXCEPT ![sock] = h.id]
            /\ connectedUsers' =
                  IF h.id \in DOMAIN connectedUsers
                  THEN [connectedUsers EXCEPT ![h.id] = Append(@, sock)]
                  ELSE [u \in DOMAIN connectedUsers \cup {h.id} |->
                          IF u = h.id THEN <<sock>> ELSE connectedUsers[u]]
            /\ resp' = [Response("connect", "OK", "") EXCEPT !.handshake = h]
       ELSE /\ resp' = [Response("connect", "UNAUTHORIZED", "Authentication error")
                            EXCEPT !.handshake = h]
            /\ UNCHANGED <<socketUser, connectedUsers>>
    /\ UNCHANGED <<users, tokens, now, secretsEqual, procs, rp, reqUser, rf, failedRun, secVars, sn,
                   notifications, pushed, listed>>

\* faulty variant of the disconnect handler: the entry of a user whose last
\* connection went away is kept with an empty list
Disconnect_KeepEmpty(sock) ==
    /\ socketUser[sock] # 0
    /\ LET userId == socketUser[sock]
           userSockets == IF userId \in DOMAIN connectedUsers THEN connectedUsers[userId] ELSE <<>>
           updatedSockets == SelectSeq(userSockets, LAMBDA id : id # sock)
       IN connectedUsers' =
            [u \in DOMAIN connectedUsers \cup {userId} |->
                    IF u = userId THEN updatedSockets ELSE connectedUsers[u]]
    /\ socketUser' = [socketUser EXCEPT ![sock] = 0]
    /\ pushed' = [pushed EXCEPT ![sock] = {}]
    /\ resp' = Response("disconnect", "OK", "")
    /\ UNCHANGED <<users, tokens, now, secretsEqual, procs, rp, reqUser, rf, failedRun, secVars, sn,
                   notifications, listed>>

\* socket.on("disconnect")
Disconnect(sock) ==
    /\ socketUser[sock] # 0
    /\ LET userId == socketUser[sock]
           userSockets == IF userId \in DOMAIN connectedUsers THEN connectedUsers[userId] ELSE <<>>
           updatedSockets == SelectSeq(userSockets, LAMBDA id : id # sock)
       IN connectedUsers' =
            IF Len(updatedSockets) = 0
            THEN [u \in DOMAIN connectedUsers \ {userId} |-> connectedUsers[u]]
            ELSE [u \in DOMAIN connectedUsers \cup {userId} |->
                    IF u = userId THEN updatedSockets ELSE connectedUsers[u]]
    /\ socketUser' = [socketUser EXCEPT ![sock] = 0]
    /\ pushed' = [pushed EXCEPT ![sock] = {}]
    /\ resp' = Response("disconnect", "OK", "")
    /\ UNCHANGED <<users, tokens, now, secretsEqual, procs, rp, reqUser, rf, failedRun, secVars, sn,
                   notifications, listed>>

NotificationIds == 1..Len(notifications)

\* findMany take
Take == 50

\* faulty variant of get:notifications: the filter is seen: true
UnseenPage_Seen(userId, page) ==
    page = {n \in NotificationIds :
                notifications[n].recipientId = userId /\ notifications[n].seen}

\* the rows a findMany { recipientId, seen: false } orderBy createdAt desc,
\* take 50 may return (rows of equal createdAt come in any order)
UnseenPage(userId, page) ==
    LET unseen == {n \in NotificationIds :
                      notifications[n].recipientId = userId /\ ~notifications[n].seen}
    IN /\ page \subseteq unseen
       /\ Cardinality(page) = IF Cardinality(unseen) < Take THEN Cardinality(unseen) ELSE Take
       /\ \A a \in page, b \in unseen \ page :
              notifications[a].createdAt >= notifications[b].createdAt

\* socket.on("get:notifications")
GetNotifications(sock) ==
    /\ socketUser[sock] # 0
    /\ \E page \in SUBSET NotificationIds :
        /\ UnseenPage(socketUser[sock], page)
        /\ listed' = [sock |-> sock, page |-> page]
    /\ resp' = Response("get:notifications", "OK", "")
    /\ UNCHANGED <<users, tokens, now, secretsEqual, procs, rp, reqUser, rf, failedRun, secVars, sn,
                   connectedUsers, notifications, socketUser, pushed>>

\* socket.on("mark:seen"): update by id; an unknown id rejects and is logged
MarkSeen(sock, notificationId) ==
    /\ socketUser[sock] # 0
    /\ notifications' = IF notificationId \in NotificationIds
                        THEN [notifications EXCEPT ![notificationId].seen = TRUE]
                        ELSE notifications
    /\ resp' = Response("mark:seen", "OK", "")
    /\ UNCHANGED <<users, tokens, now, secretsEqual, procs, rp, reqUser, rf, failedRun, secVars, sn,
                   connectedUsers, socketUser, pushed, listed>>

\* faulty variant of mark:read: only the read flag is set
MarkRead_ReadOnly(sock, notificationId) ==
    /\ socketUser[sock] # 0
    /\ notifications' = IF notificationId \in NotificationIds
                        THEN [notifications EXCEPT ![notificationId].read = TRUE]
                        ELSE notifications
    /\ resp' = Response("mark:read", "OK", "")
    /\ UNCHANGED <<users, tokens, now, secretsEqual, procs, rp, reqUser, rf, failedRun, secVars, sn,
                   connectedUsers, socketUser, pushed, listed>>

\* NotificationService.markAllAsSeen (PUT /notifications/mark-all-seen)
MarkAllAsSeen(userId) ==
    /\ notifications' = [n \in NotificationIds |->
            IF notifications[n].recipientId = userId /\ ~notifications[n].seen
            THEN [notifications[n] EXCEPT !.seen = TRUE] ELSE notifications[n]]
    /\ resp' = [Response("markAllAsSeen", "OK", "") EXCEPT !.email = userId]
    /\ UNCHANGED <<users, tokens, now, secretsEqual, procs, rp, reqUser, rf, failedRun, secVars, sn,
                   connectedUsers, socketUser, pushed, listed>>

\* socket.on("mark:read")
MarkRead(sock, notificationId) ==
    /\ socketUser[sock] # 0
    /\ notifications' = IF notificationId \in NotificationIds
                        THEN [notifications EXCEPT ![notificationId].seen = TRUE,
                                                   ![notificationId].read = TRUE]
                        ELSE notifications
    /\ resp' = Response("mark:read", "OK", "")
    /\ UNCHANGED <<users, tokens, now, secretsEqual, procs, rp, reqUser, rf, failedRun, secVars, sn,
                   connectedUsers, socketUser, pushed, listed>>

\* NotificationController.markAsSeen (REST): findFirst by id and recipientId
\* = req.user.id, 404 when there is none, else NotificationService.markAsSeen
MarkAsSeen(userId, id) ==
    /\ IF id \in NotificationIds /\ notifications[id].recipientId = userId
       THEN /\ notifications' = [notifications EXCEPT ![id].seen = TRUE]
            /\ resp' = [Response("markAsSeen", "OK", "") EXCEPT !.email = userId]
       ELSE /\ resp' = [Response("markAsSeen", "NOT_FOUND", "Notification not found")
                            EXCEPT !.email = userId]
            /\ UNCHANGED notifications
    /\ UNCHANGED <<users, tokens, now, secretsEqual, procs, rp, reqUser, rf, failedRun, secVars, sn,
                   connectedUsers, socketUser, pushed, listed>>

\* NotificationController.markAsRead (REST)
MarkAsRead(userId, id) ==
    /\ IF id \in NotificationIds /\ notifications[id].recipientId = userId
       THEN /\ notifications' = [notifications EXCEPT ![id].seen = TRUE, ![id].read = TRUE]
            /\ resp' = [Response("markAsRead", "OK", "") EXCEPT !.email = userId]
       ELSE /\ resp' = [Response("markAsRead", "NOT_FOUND", "Notification not found")
                            EXCEPT !.email = userId]
            /\ UNCHANGED notifications
    /\ UNCHANGED <<users, tokens, now, secretsEqual, procs, rp, reqUser, rf, failedRun, secVars, sn,
                   connectedUsers, socketUser, pushed, listed>>

\* sendNotification: create (seen and read take the schema defaults), then
\* emit to the sockets registered for the recipient; a rejected create is
\* rethrown before anything is emitted
SendNotification(recipientId, storeOk) ==
    /\ IF storeOk /\ users[recipientId].exists
       THEN /\ Len(notifications) < MaxNotifications
            /\ notifications' = Append(notifications,
                    [recipientId |-> recipientId, seen |-> FALSE, read |-> FALSE,
                     createdAt |-> now])
            /\ pushed' = [sock \in Sockets |->
                    IF recipientId \in DOMAIN connectedUsers
                       /\ \E i \in 1..Len(connectedUsers[recipientId]) :
                              connectedUsers[recipientId][i] = sock
                    THEN pushed[sock] \cup {Len(notifications) + 1}
                    ELSE pushed[sock]]
            /\ resp' = [Response("sendNotification", "OK", "") EXCEPT !.email = recipientId]
       ELSE /\ resp' = [Response("sendNotification", "INTERNAL_SERVER_ERROR", "An unexpected error occurred.")
                            EXCEPT !.email = recipientId]
            /\ UNCHANGED <<notifications, pushed>>
    /\ UNCHANGED <<users, tokens, now, secretsEqual, procs, rp, reqUser, rf, failedRun, secVars, sn,
                   connectedUsers, socketUser, listed>>

\* ---- sendNotification, one action per side of its await -------------------

\* prisma.notification.create, awaited; a rejected create is logged and
\* rethrown to the caller
SnCreate(recipientId, storeOk) ==
    /\ sn.pc = "idle"
    /\ IF storeOk /\ users[recipientId].exists
       THEN /\ Len(notifications) < MaxNotifications
            /\ notifications' = Append(notifications,
                    [recipientId |-> recipientId, seen |-> FALSE, read |-> FALSE,
                     createdAt |-> now])
            /\ sn' = [pc |-> "push", id |-> Len(notifications) + 1, recipientId |-> recipientId]
            /\ UNCHANGED resp
       ELSE /\ resp' = [Response("sendNotification", "INTERNAL_SERVER_ERROR", "An unexpected error occurred.")
                            EXCEPT !.email = recipientId]
            /\ UNCHANGED <<notifications, sn>>
    /\ UNCHANGED <<users, tokens, now, secretsEqual, procs, rp, reqUser, rf, failedRun, secVars,
                   connectedUsers, socketUser, pushed, listed>>

\* faulty variant of the push: the event goes to every registered connection
SnPush_Everyone ==
    /\ sn.pc = "push"
    /\ pushed' = [sock \in Sockets |->
            IF socketUser[sock] # 0 THEN pushed[sock] \cup {sn.id} ELSE pushed[sock]]
    /\ resp' = [Response("sendNotification", "OK", "") EXCEPT !.email = sn.recipientId]
    /\ sn' = NoSend
    /\ UNCHANGED <<users, tokens, now, secretsEqual, procs, rp, reqUser, rf, failedRun, secVars,
                   connectedUsers, notifications, socketUser, listed>>

\* connectedUsers.get(recipientId) and the emit of new:notification to each
\* socket id found, then the saved notification is returned
SnPush ==
    /\ sn.pc = "push"
    /\ pushed' = [sock \in Sockets |->
            IF sn.recipientId \in DOMAIN connectedUsers
               /\ \E i \in 1..Len(connectedUsers[sn.recipientId]) :
                      connectedUsers[sn.recipientId][i] = sock
            THEN pushed[sock] \cup {sn.id}
            ELSE pushed[sock]]
    /\ resp' = [Response("sendNotification", "OK", "") EXCEPT !.email = sn.recipientId]
    /\ sn' = NoSend
    /\ UNCHANGED <<users, tokens, now, secretsEqual, procs, rp, reqUser, rf, failedRun, secVars,
                   connectedUsers, notifications, socketUser, listed>>

\* the orders in which the creates of concurrent sendNotification calls can
\* complete
Orders(S) ==
    {q \in [1..Cardinality(S) -> S] : \A i, j \in 1..Cardinality(S) : q[i] = q[j] => i = j}

\* broadcastNotification without roles: one sendNotification per active user,
\* all started by recipients.map, awaited together with Promise.all, which
\* rejects as soon as one of them rejects; the rejection is logged and
\* rethrown.  fails: the recipients whose create is rejected.
BroadcastNotification(fails) ==
    LET recipients == {u \in Users : users[u].exists /\ users[u].isActive}
        stored == recipients \ fails
    IN
    /\ sn.pc = "idle"
    /\ Len(notifications) + Cardinality(stored) <= MaxNotifications
    /\ \E order \in Orders(stored) :
          /\ notifications' = notifications \o
                [i \in 1..Cardinality(stored) |->
                    [recipientId |-> order[i], seen |-> FALSE, read |-> FALSE, createdAt |-> now]]
          /\ pushed' = [sock \in Sockets |->
                pushed[sock] \cup
                {Len(notifications) + i : i \in
                    {k \in 1..Cardinality(stored) :
                        /\ order[k] \in DOMAIN connectedUsers
                        /\ \E x \in 1..Len(connectedUsers[order[k]]) :
                               connectedUsers[order[k]][x] = sock}}]
    /\ resp' = [Response("broadcastNotification",
                         IF recipients \cap fails = {} THEN "OK" ELSE "INTERNAL_SERVER_ERROR",
                         IF recipients \cap fails = {} THEN "" ELSE "An unexpected error occurred.")
                    EXCEPT !.failed = recipients \cap fails]
    /\ UNCHANGED <<users, tokens, now, secretsEqual, procs, rp, reqUser, rf, failedRun, secVars, sn,
                   connectedUsers, socketUser, listed>>

\* time passes
Tick ==
    /\ now < MaxTime
    /\ now' = now + 1
    /\ UNCHANGED <<users, tokens, secretsEqual, procs, rp, resp, reqUser, rf, failedRun, secVars, notifVars>>

\* ---------------------------------------------------------- specifications

\* account life cycle: registration, verification, login, forgot-password
NextAccount ==
    \/ \E e \in Users, p \in Passwords, m \in BOOLEAN : Register(e, p, m)
    \/ \E t \in 0..MaxTokens : VerifyEmail(t)
    \/ \E e \in Users, p \in Passwords, r \in BOOLEAN : Login(e, p, r)
    \/ \E e \in Users, m \in BOOLEAN : ForgotPassword(e, m)
    \/ \E u \in Users : ToggleUserStatus(u)
    \/ Tick

SpecAccount == Init /\ [][NextAccount]_vars

\* revocation: password reset and logout against authenticate
NextRevoke ==
    \/ \E e \in Users, p \in Passwords, m \in BOOLEAN : Register(e, p, m)
    \/ \E t \in 0..MaxTokens : VerifyEmail(t)
    \/ \E e \in Users, p \in Passwords, r \in BOOLEAN : Login(e, p, r)
    \/ \E e \in Users, m \in BOOLEAN : ForgotPassword(e, m)
    \/ \E t \in 0..MaxTokens, p \in Passwords, c \in Passwords : ResetPassword(t, p, c)
    \/ \E t \in (0..MaxTokens) \cup {NULL}, a \in BOOLEAN : LogoutRequest(t, a)
    \/ \E t \in (0..MaxTokens) \cup {NULL} : Authenticate(t)
    \/ Tick

SpecRevoke == Init /\ [][NextRevoke]_vars

\* refresh-token rotation interleaved with logins and account deactivation
NextRefresh ==
    \/ \E e \in Users, p \in Passwords, m \in BOOLEAN : Register(e, p, m)
    \/ \E t \in 0..MaxTokens : VerifyEmail(t)
    \/ \E e \in Users, p \in Passwords, r \in BOOLEAN : Login(e, p, r)
    \/ RefreshStep
    \/ \E u \in Users : ToggleUserStatus(u)
    \/ Tick

SpecRefresh == Init /\ [][NextRefresh]_vars

\* token types against authenticate, for either configuration of the secrets
NextTypes ==
    \/ \E e \in Users, p \in Passwords, m \in BOOLEAN : Register(e, p, m)
    \/ \E t \in 0..MaxTokens : VerifyEmail(t)
    \/ \E e \in Users, p \in Passwords, r \in BOOLEAN : Login(e, p, r)
    \/ \E e \in Users, m \in BOOLEAN : ForgotPassword(e, m)
    \/ \E t \in (0..MaxTokens) \cup {NULL} : Authenticate(t)
    \/ Tick

SpecTypes == InitAnySecrets /\ [][NextTypes]_vars

\* the state after every user has registered and verified at time 0
InitVerified ==
    /\ users = [u \in Users |->
            [exists |-> TRUE, password |-> Hash(1), isActive |-> TRUE,
             isVerified |-> TRUE, isLocked |-> FALSE, lockoutExpiry |-> NULL,
     deletedAt |-> NULL]]
    /\ tokens = [u \in Users |->
            [type |-> "EMAIL_VERIFICATION", userId |-> u, expiresAt |-> EmailExpiresIn,
             invalidated |-> TRUE, tokenId |-> NoToken]]
    /\ now = 0
    /\ secretsEqual = FALSE
    /\ resp = [Response("verifyEmail", "OK", "Email verified successfully")
                   EXCEPT !.email = NumUsers, !.token = NumUsers,
                          !.log = {ActivityRow("EMAIL_VERIFICATION", NumUsers)}]
    /\ reqUser = NULL
    /\ rf = Idle
    /\ rp = NoReset
    /\ procs = [p \in Procs |-> NoCall]
    /\ failedRun = NoRun
    /\ loginAttempts = <<>>
    /\ sessions = {}
    /\ connectedUsers = [u \in {} |-> <<>>]
    /\ notifications = <<>>
    /\ socketUser = [s \in Sockets |-> 0]
    /\ pushed = [s \in Sockets |-> {}]
    /\ listed = NoList
    /\ sn = NoSend
    /\ cleanupInterval = NULL
    /\ timers = {}

\* account lockout: the Security Policy Engine's attempt counting and lock
NextLockout ==
    \/ \E e \in Users : HandleFailedLoginAttempt(e)
    \/ \E u \in Users : HandleSuccessfulLogin(u)
    \/ \E u \in Users : LockCheck(u)
    \/ Tick

SpecLockout == InitVerified /\ [][NextLockout]_vars

\* concurrent-session limit: manageSessions, and login
NextSessions ==
    \/ \E e \in Users, p \in Passwords, r \in BOOLEAN : Login(e, p, r)
    \/ \E u \in Users, id \in SessionIds : ManageSessions(u, id)
    \/ Tick

SpecSessions == InitVerified /\ [][NextSessions]_vars

\* the notification gateway
NextNotif ==
    \/ \E sock \in Sockets, h \in HandshakeTokens : Connect(sock, h)
    \/ \E sock \in Sockets : Disconnect(sock)
    \/ \E sock \in Sockets : GetNotifications(sock)
    \/ \E sock \in Sockets, n \in 0..MaxNotifications : MarkSeen(sock, n)
    \/ \E sock \in Sockets, n \in 0..MaxNotifications : MarkRead(sock, n)
    \/ \E u \in Users : MarkAllAsSeen(u)
    \/ \E u \in Users, ok \in BOOLEAN : SendNotification(u, ok)

SpecNotif == InitVerified /\ [][NextNotif]_vars

\* sendNotification interleaved at its await with connects and disconnects
NextSend ==
    \/ \E sock \in Sockets, h \in HandshakeTokens : Connect(sock, h)
    \/ \E sock \in Sockets : Disconnect(sock)
    \/ \E u \in Users, ok \in BOOLEAN : SnCreate(u, ok)
    \/ SnPush

SpecSend == InitVerified /\ [][NextSend]_vars

\* broadcasts to the active users, some of them connected
NextBroadcast ==
    \/ \E sock \in Sockets, h \in HandshakeTokens : Connect(sock, h)
    \/ \E sock \in Sockets : Disconnect(sock)
    \/ \E u \in Users : ToggleUserStatus(u)
    \/ \E fails \in SUBSET Users : BroadcastNotification(fails)

SpecBroadcast == InitVerified /\ [][NextBroadcast]_vars

\* the cleanup scheduler and its runs, with logins and sessions that age
NextCleanup ==
    \/ CleanupStart
    \/ CleanupStop
    \/ \E ok \in BOOLEAN : RunCleanup(ok)
    \/ \E e \in Users, r \in BOOLEAN : Login(e, 1, r)
    \/ \E u \in Users, id \in SessionIds : ManageSessions(u, id)
    \/ Tick

SpecCleanup == InitVerified /\ [][NextCleanup]_vars

\* logins followed by requests that carry only the cookies of the login
NextCookies ==
    \/ \E e \in Users : Register(e, 1, TRUE)
    \/ \E t \in 1..MaxTokens : VerifyEmail(t)
    \/ \E e \in Users, p \in Passwords, r \in BOOLEAN : Login(e, p, r)
    \/ CookieRequest
    \/ CookieRefresh
    \/ Tick

SpecCookies == Init /\ [][NextCookies]_vars

\* soft delete and deactivation of one account against login, refresh and
\* authenticate with the credentials issued before
NextDeactivate ==
    \/ Register(1, 1, TRUE)
    \/ \E t \in 1..MaxTokens : VerifyEmail(t)
    \/ \E r \in BOOLEAN : Login(1, 1, r)
    \/ RefreshStep
    \/ \E t \in 1..MaxTokens + 2 * MaxRotations : Authenticate(t)
    \/ \E u \in Users : ToggleUserStatus(u)
    \/ \E u \in Users : DeleteUser(u)
    \/ Tick

SpecDeactivate == Init /\ [][NextDeactivate]_vars

\* refreshToken calls of several clients, interleaved at their store calls,
\* on the refresh token of one login
NextRedeem ==
    \/ Register(1, 1, TRUE)
    \/ \E t \in 1..MaxTokens : VerifyEmail(t)
    \/ Login(1, 1, TRUE)
    \/ \E p \in Procs, t \in 1..MaxTokens + 2 * NumProcs : RefreshTokenFind(p, t)
    \/ \E p \in Procs : RefreshTokenExpire(p)
    \/ \E p \in Procs : RefreshTokenGetUser(p)
    \/ \E p \in Procs : RefreshTokenCreateAccess(p)
    \/ \E p \in Procs : RefreshTokenCreateRefresh(p)
    \/ \E p \in Procs : RefreshTokenInvalidateOld(p)
    \/ \E p \in Procs : RefreshTokenReturn(p)
    \/ Tick

SpecRedeem == Init /\ [][NextRedeem]_vars

\* handleFailedLoginAttempt calls of several requests, interleaved at their
\* store calls
NextFailedRace ==
    \/ \E p \in Procs, e \in Users : FailedAttemptFindUser(p, e)
    \/ \E p \in Procs : FailedAttemptCount(p)
    \/ \E p \in Procs : FailedAttemptCreate(p)
    \/ \E p \in Procs : FailedAttemptLock(p)
    \/ Tick

SpecFailedRace == InitVerified /\ [][NextFailedRace]_vars

\* manageSessions calls of several logins of one user, interleaved at their
\* store calls
NextSessionRace ==
    \/ \E p \in Procs, id \in SessionIds : ManageSessionsFind(p, 1, id)
    \/ \E p \in Procs : ManageSessionsDeleteMany(p)
    \/ \E p \in Procs : ManageSessionsCreate(p)
    \/ Tick

SpecSessionRace == InitVerified /\ [][NextSessionRace]_vars

\* the seen/read flags, written over the socket and over REST
NextMark ==
    \/ \E sock \in Sockets, h \in HandshakeTokens : Connect(sock, h)
    \/ \E u \in Users : SendNotification(u, TRUE)
    \/ \E sock \in Sockets, n \in 0..MaxNotifications : MarkSeen(sock, n)
    \/ \E sock \in Sockets, n \in 0..MaxNotifications : MarkRead(sock, n)
    \/ \E u \in Users, n \in 0..MaxNotifications : MarkAsSeen(u, n)
    \/ \E u \in Users, n \in 0..MaxNotifications : MarkAsRead(u, n)

SpecMark == InitVerified /\ [][NextMark]_vars

\* a login of one account interleaved, at its store calls, with password
\* resets of that account; mail is delivered, confirmPassword repeats
\* newPassword, and every store call of the reset goes through
NextResetRace ==
    \/ Register(1, 1, TRUE)
    \/ \E t \in 1..MaxTokens : VerifyEmail(t)
    \/ ForgotPassword(1, TRUE)
    \/ \E t \in 1..MaxTokens, p \in Passwords : RpStart(t, p, p)
    \/ RpUpdateUser
    \/ RpInvalidateUsed
    \/ RpInvalidateSessions
    \/ \E pw \in Passwords, r \in BOOLEAN : LoginFindUser(1, 1, pw, r)
    \/ LoginCreateAccess(1)
    \/ LoginCreateRefresh(1)
    \/ LoginReturn(1)
    \/ Tick

SpecResetRace == Init /\ [][NextResetRace]_vars

\* failed and successful login attempts of registered and unknown emails
NextAttempts ==
    \/ \E e \in Users : Register(e, 1, TRUE)
    \/ \E e \in Users : HandleFailedLoginAttempt(e)
    \/ \E u \in Users : HandleSuccessfulLogin(u)
    \/ \E u \in Users : LockCheck(u)
    \/ Tick

SpecAttempts == Init /\ [][NextAttempts]_vars

\* token rotation by the security service on the tokens of logged-in users
NextRotate ==
    \/ \E e \in Users : Register(e, 1, TRUE)
    \/ \E t \in 1..MaxTokens : VerifyEmail(t)
    \/ \E e \in Users, r \in BOOLEAN : Login(e, 1, r)
    \/ \E old \in 1..MaxTokens, e \in 0..MaxTime, f \in {"none", "update", "create"} :
          RotateRefreshToken(old, e, f)
    \/ Tick

SpecRotate == Init /\ [][NextRotate]_vars

\* every flow that writes the Token table, interleaved at the awaits of the
\* refresh and reset flows, for one account; mail is delivered and
\* confirmPassword repeats newPassword
NextTokens ==
    \/ Register(1, 1, TRUE)
    \/ \E t \in 1..MaxTokens : VerifyEmail(t)
    \/ \E p \in Passwords, r \in BOOLEAN : Login(1, p, r)
    \/ ForgotPassword(1, TRUE)
    \/ \E t \in 1..MaxTokens, p \in Passwords : RpStart(t, p, p)
    \/ RpUpdateUser
    \/ RpInvalidateUsed
    \/ RpInvalidateSessions
    \/ RpFail
    \/ \E t \in 1..MaxTokens, a \in BOOLEAN : LogoutRequest(t, a)
    \/ \E t \in 1..MaxTokens, c \in Passwords, p \in Passwords : ChangePassword(t, c, p, p)
    \/ \E t \in 1..MaxTokens : Authenticate(t)
    \/ RefreshStep
    \/ Tick

SpecTokens == Init /\ [][NextTokens]_vars

\* self-service password change of logged-in users
NextChange ==
    \/ \E e \in Users, p \in Passwords, r \in BOOLEAN : Login(e, p, r)
    \/ \E t \in (0..MaxTokens) \cup {NULL}, c \in Passwords, p \in Passwords, q \in Passwords :
          ChangePassword(t, c, p, q)
    \/ Tick

SpecChange == InitVerified /\ [][NextChange]_vars

\* ------------------------------------------------------------------ claims

\* C1: once MaxLoginAttempts consecutive failed logins of a user have occurred
\* within the window, the account is LOCKED (so that the next login is
\* answered 429 even with the right password).  login never records a failed
\* attempt and never locks: the run of wrong-password logins grows and the
\* account stays unlocked.
C1_LockedAfterFailedLogins ==
    (/\ failedRun.count >= MaxLoginAttempts
     /\ failedRun.email \in Users
     /\ now - failedRun.since <= LoginAttemptWindow)
    => users[failedRun.email].isLocked

\* is t a record that has not been invalidated
Valid(t) == t \in TokenIds /\ ~tokens[t].invalidated

\* C2: while a refresh flow that passed its checks is in flight, exactly one
\* of the old and the new refresh token is valid: the old one until the new
\* one replaces it, never both and never neither.
C2_RotationAtomic ==
    rf.pc \in {"getUser", "createAccess", "createRefresh", "invalidateOld", "touch"}
    => \/ (Valid(rf.old) /\ rf.refresh = NoToken)
       \/ (~Valid(rf.old) /\ Valid(rf.refresh))
C4_RevokedAccessTokenRejected ==
    [][(resp'.op = "authenticate" /\ resp'.status = "OK" /\ now' = now)
       => (resp'.token \in TokenIds /\ ~tokens[resp'.token].invalidated)]_vars

\* C5: in every state and for either outcome of the mail transport,
\* forgotPassword answers any two emails (no account, inactive account,
\* active account) with the same status and body.
C5_ForgotPasswordUniform ==
    \A e1 \in Users, e2 \in Users, mailOk \in BOOLEAN :
        ForgotResponse(e1, mailOk) = ForgotResponse(e2, mailOk)

\* C6: a token issued with a type other than ACCESS and presented to
\* authenticate is answered Unauthorized and no user is attached.
C6_NonAccessTokenRejected ==
    (resp.op = "authenticate" /\ resp.token \in TokenIds /\ tokens[resp.token].type # "ACCESS")
    => (resp.status = "UNAUTHORIZED" /\ reqUser = NULL)

\* C6 happens: with one secret shared by all token types the signature of a
\* non-ACCESS token verifies, and the type comparison rejects it
C6_Witness ==
    /\ resp.op = "authenticate"
    /\ resp.token \in TokenIds
    /\ tokens[resp.token].type # "ACCESS"
    /\ secretsEqual
    /\ resp.message = "Invalid token type"
    /\ reqUser = NULL

\* the unseen notifications of userId
Unseen(userId) ==
    {n \in NotificationIds : notifications[n].recipientId = userId /\ ~notifications[n].seen}

\* is n among the Take newest unseen notifications of userId whatever the
\* order of rows of equal createdAt
AmongNewest(userId, n) ==
    Cardinality({m \in Unseen(userId) :
        m # n /\ notifications[m].createdAt >= notifications[n].createdAt}) < Take

\* C7: sendNotification to a recipient without any connection stores the
\* notification with seen = false and emits nothing; a get:notifications from
\* a connection of a user returns every notification of that user that is
\* still unseen and among the 50 newest unseen.
C7_OfflineNotificationListed ==
    [][/\ (/\ resp'.op = "sendNotification"
           /\ resp'.status = "OK"
           /\ resp'.email \notin DOMAIN connectedUsers)
          => /\ Len(notifications') = Len(notifications) + 1
             /\ notifications'[Len(notifications')].recipientId = resp'.email
             /\ ~notifications'[Len(notifications')].seen
             /\ \A n \in NotificationIds : notifications'[n] = notifications[n]
             /\ pushed' = pushed
       /\ resp'.op = "get:notifications"
          => /\ listed'.sock \in Sockets
             /\ socketUser[listed'.sock] # 0
             /\ notifications' = notifications
             /\ \A n \in Unseen(socketUser[listed'.sock]) :
                   AmongNewest(socketUser[listed'.sock], n) => n \in listed'.page]_vars

\* C7 happens: a notification that was emitted to no connection is in the
\* page a connection of its recipient got for get:notifications
C7_Witness ==
    /\ resp.op = "get:notifications"
    /\ listed.page # {}
    /\ \A s \in Sockets : pushed[s] = {}
    /\ \A n \in listed.page :
          notifications[n].recipientId = socketUser[listed.sock] /\ ~notifications[n].seen

\* C8: for an existing active account and its password, login is answered
\* Forbidden while isVerified is false and succeeds once it is true; a
\* Forbidden login creates no token record; a successful verifyEmail sets
\* isVerified of the owner of the EMAIL_VERIFICATION token; a successful
\* login is one of a verified user and returns a new ACCESS token of that user.
C8_NoTokensBeforeVerification ==
    [][/\ \A e \in Users, p \in Passwords :
            (users[e].exists /\ users[e].isActive /\ Compare(p, users[e].password))
            => LoginStatus(LoginResult(e, p)) = IF users[e].isVerified THEN "OK" ELSE "FORBIDDEN"
       /\ (resp'.op = "login" /\ resp'.status = "FORBIDDEN" /\ now' = now)
          => (tokens' = tokens /\ ~users[resp'.email].isVerified)
       /\ (resp'.op = "verifyEmail" /\ resp'.status = "OK" /\ now' = now)
          => /\ tokens[resp'.token].type = "EMAIL_VERIFICATION"
             /\ tokens[resp'.token].userId = resp'.email
             /\ users'[resp'.email].isVerified
       /\ (resp'.op = "login" /\ resp'.status = "OK" /\ now' = now)
          => /\ users[resp'.email].isVerified
             /\ resp'.accessToken = Len(tokens) + 1
             /\ resp'.accessToken \in 1..Len(tokens')
             /\ tokens'[resp'.accessToken].type = "ACCESS"
             /\ tokens'[resp'.accessToken].userId = resp'.email
             /\ ~tokens'[resp'.accessToken].invalidated]_vars

\* C8 happens: a login succeeded for a user whose registration token was
\* used by verifyEmail, and its access token is in the store
C8_Witness ==
    /\ resp.op = "login"
    /\ resp.status = "OK"
    /\ resp.accessToken \in TokenIds
    /\ tokens[resp.accessToken].type = "ACCESS"
    /\ users[resp.email].isVerified
    /\ \E t \in TokenIds :
          /\ tokens[t].type = "EMAIL_VERIFICATION"
          /\ tokens[t].userId = resp.email
          /\ tokens[t].invalidated

\* C9: a successful login of a user who already has MaxConcurrentSessions
\* sessions inserts a new session of that user after evicting one, and leaves
\* the user with no more than MaxConcurrentSessions sessions.
C9_LoginEvictsOldestSession ==
    [][(/\ resp'.op = "login"
        /\ resp'.status = "OK"
        /\ now' = now
        /\ Cardinality(SessionsOf(resp'.email)) >= MaxConcurrentSessions)
       => /\ \E x \in sessions' \ sessions : x.userId = resp'.email
          /\ \E x \in sessions \ sessions' : x.userId = resp'.email
          /\ Cardinality({x \in sessions' : x.userId = resp'.email}) <= MaxConcurrentSessions]_vars

\* C10: an isAccountLocked check of a locked user whose lockoutExpiry has
\* passed returns false and leaves the user unlocked with lockoutExpiry
\* cleared (no cleanup run takes part); when lockoutExpiry has not passed it
\* returns true and changes nothing.
C10_LazyUnlock ==
    [][\A u \in Users :
        (resp'.op = "isAccountLocked" /\ resp'.email = u /\ now' = now /\ users[u].isLocked)
        => IF users[u].lockoutExpiry # NULL /\ users[u].lockoutExpiry < now
           THEN /\ resp'.message = "false"
                /\ users' = [users EXCEPT ![u].isLocked = FALSE, ![u].lockoutExpiry = NULL]
           ELSE /\ resp'.message = "true"
                /\ users' = users]_vars

\* C10 happens: a user who was locked by MaxLoginAttempts failed attempts
\* inside the window is found unlocked, with lockoutExpiry cleared, by a
\* check made after the lockout duration
C10_Witness ==
    /\ resp.op = "isAccountLocked"
    /\ resp.message = "false"
    /\ ~users[resp.email].isLocked
    /\ users[resp.email].lockoutExpiry = NULL
    /\ \E j \in 1..Len(loginAttempts) :
          /\ loginAttempts[j].userId = resp.email
          /\ now > loginAttempts[j].createdAt + AccountLockoutDuration
          /\ Cardinality({i \in 1..j :
                /\ loginAttempts[i].userId = resp.email
                /\ ~loginAttempts[i].success
                /\ loginAttempts[i].createdAt >= loginAttempts[j].createdAt - LoginAttemptWindow})
             >= MaxLoginAttempts
\* C11: no step of register, login, refresh, logout, forgot / reset password,
\* change password, verify email or authenticate, in any interleaving, removes
\* a token record or changes its invalidated flag from true to false.
C11_InvalidatedMonotonic ==
    [][\A i \in TokenIds :
          /\ i \in 1..Len(tokens')
          /\ tokens[i].invalidated => tokens'[i].invalidated]_vars

\* C11 happens: a refresh token invalidated by a rotation and its successor
\* invalidated by a logout from all devices are both still invalidated
C11_Witness ==
    /\ resp.op = "logout"
    /\ resp.message = "Logged out from all devices"
    /\ \E i \in TokenIds, j \in TokenIds :
          /\ i < j
          /\ tokens[i].type = "REFRESH" /\ tokens[i].invalidated
          /\ tokens[j].type = "REFRESH" /\ tokens[j].invalidated
\* C12: a login for an email without account, for an inactive account and for
\* an existing account with a wrong password is answered with the same
\* status and the same generic message "Invalid email or password".
C12_LoginFailuresUniform ==
    \A e \in Users, p \in Passwords :
        (~users[e].exists \/ ~users[e].isActive \/ ~Compare(p, users[e].password))
        => /\ LoginStatus(LoginResult(e, p)) = "UNAUTHORIZED"
           /\ LoginResult(e, p) = "Invalid email or password"
\* the records a login of email adds to the Token table
NewAtLogin(email, rememberMe) ==
    {i \in 1..Len(TokensAfterLogin(email, rememberMe)) : i > Len(tokens)}

\* C13: a login that succeeds creates exactly one ACCESS record for the user;
\* it creates a REFRESH record, whose payload carries the id of that ACCESS
\* record, and sets a refresh-token cookie if and only if rememberMe was
\* requested.
C13_RefreshOnlyWithRememberMe ==
    \A e \in Users, p \in Passwords, r \in BOOLEAN :
        LoginResult(e, p) = "ok" =>
            LET after == TokensAfterLogin(e, r)
                access == {i \in NewAtLogin(e, r) : after[i].type = "ACCESS"}
                refresh == {i \in NewAtLogin(e, r) : after[i].type = "REFRESH"}
            IN /\ Cardinality(access) = 1
               /\ \A i \in NewAtLogin(e, r) : after[i].userId = e /\ ~after[i].invalidated
               /\ NewAtLogin(e, r) = access \cup refresh
               /\ Cardinality(refresh) = IF r THEN 1 ELSE 0
               /\ \A i \in refresh : after[i].tokenId \in access
               /\ \A i \in TokenIds : after[i] = tokens[i]
               /\ "access_token" \in LoginCookies(r)
               /\ "refresh_token" \in LoginCookies(r) <=> r
\* C14: refreshToken goes past its checks only with a REFRESH record that is
\* not invalidated, not past its expiry and owned by an existing active user;
\* every other presented token is answered Unauthorized and the refresh
\* request creates no token record for it, and the rejection changes the Token table only in the expired case,
\* where the presented record is marked invalidated.
C14_RefreshRejections ==
    [][/\ (rf.pc = "idle" /\ rf'.pc # "idle")
          => /\ rf'.pc \in {"expire", "getUser"}
             /\ rf'.old \in TokenIds
             /\ tokens[rf'.old].type = "REFRESH"
             /\ ~tokens[rf'.old].invalidated
             /\ rf'.pc = "expire" <=> now > tokens[rf'.old].expiresAt
             /\ tokens' = tokens
       /\ (rf.pc = "getUser" /\ rf'.pc # "getUser")
          => /\ rf'.pc = "createAccess"
                <=> (users[tokens[rf.old].userId].exists /\ users[tokens[rf.old].userId].isActive)
             /\ rf'.pc \in {"createAccess", "idle"}
             /\ tokens' = tokens
       /\ (rf.pc \in {"expire", "getUser"} /\ rf'.pc = "idle")
          => (resp'.op = "refreshToken" /\ resp'.status = "UNAUTHORIZED" /\ resp'.token = rf.old)
       /\ (rf.pc = "expire" /\ rf'.pc # "expire")
          => /\ rf'.pc = "idle"
             /\ tokens' = [tokens EXCEPT ![rf.old].invalidated = TRUE]
       /\ (rf.pc = "idle" /\ rf'.pc = "idle" /\ resp'.op = "refreshToken" /\ now' = now)
          => /\ tokens' = tokens
             /\ resp'.token \in 1..(MaxTokens + 2 * MaxRotations) => resp'.status = "UNAUTHORIZED"
             /\ resp'.token \in TokenIds
                => (tokens[resp'.token].type # "REFRESH" \/ tokens[resp'.token].invalidated)
       /\ Len(tokens') > Len(tokens) /\ rf' # rf
          => rf.pc \in {"createAccess", "createRefresh"}]_vars

\* C14 happens: a refresh token presented after its expiry was rejected and
\* its record is now invalidated
C14_Witness ==
    /\ resp.op = "refreshToken"
    /\ resp.status = "UNAUTHORIZED"
    /\ resp.message = "Refresh token expired"
    /\ resp.token \in TokenIds
    /\ tokens[resp.token].type = "REFRESH"
    /\ tokens[resp.token].invalidated
    /\ now > tokens[resp.token].expiresAt
\* the outcomes of logout for an authenticated single-device request
SingleDeviceOutcomes ==
    {"Logged out successfully", "Token ID required for logout", "Invalid token"}

\* C15: after an authenticated logout with allDevices = false the access
\* token that authenticated the request and the refresh token paired with it
\* are invalidated, and every other token record is unchanged.
C15_SingleDeviceLogout ==
    [][(resp'.op = "logout" /\ now' = now /\ resp'.message \in SingleDeviceOutcomes)
       => /\ resp'.status = "OK"
          /\ Len(tokens') = Len(tokens)
          /\ tokens'[resp'.token].invalidated
          /\ \A i \in TokenIds :
                IF i = resp'.token \/ (tokens[i].type = "REFRESH" /\ tokens[i].tokenId = resp'.token)
                THEN tokens'[i].invalidated
                ELSE tokens'[i] = tokens[i]]_vars
\* C16: after a logout with allDevices = true of user U every ACCESS and
\* REFRESH record of U is invalidated, and U's EMAIL_VERIFICATION and
\* PASSWORD_RESET records and every record of another user are unchanged.
C16_LogoutAllDevices ==
    [][(resp'.op = "logout" /\ now' = now /\ resp'.message = "Logged out from all devices")
       => /\ resp'.status = "OK"
          /\ Len(tokens') = Len(tokens)
          /\ \A i \in TokenIds :
                IF tokens[i].userId = tokens[resp'.token].userId
                   /\ tokens[i].type \in {"ACCESS", "REFRESH"}
                THEN tokens'[i] = [tokens[i] EXCEPT !.invalidated = TRUE]
                ELSE tokens'[i] = tokens[i]]_vars

\* C16 happens: a user logged out from all devices, the access token of the
\* request is invalidated, and a record of another user is still valid
C16_Witness ==
    /\ resp.op = "logout"
    /\ resp.message = "Logged out from all devices"
    /\ tokens[resp.token].type = "ACCESS"
    /\ tokens[resp.token].invalidated
    /\ \E j \in TokenIds :
          tokens[j].userId # tokens[resp.token].userId /\ ~tokens[j].invalidated
\* C17: in no state has resetPassword already replaced the password while
\* the reset token it used, or an ACCESS or REFRESH record of that user, is
\* still not invalidated.
C17_ResetAtomic ==
    rp.pc \in {"invalidateUsed", "invalidateSessions"}
    => /\ tokens[rp.token].invalidated
       /\ \A i \in TokenIds :
             (tokens[i].userId = rp.user /\ tokens[i].type \in {"ACCESS", "REFRESH"})
             => tokens[i].invalidated
C19_ChangePasswordFrame ==
    [][/\ \A u \in Users, c \in Passwords, n \in Passwords, q \in Passwords :
             ChangeResult(u, c, n, q) = "ok"
             <=> /\ users[u].exists
                 /\ Compare(c, users[u].password)
                 /\ ~Compare(n, users[u].password)
                 /\ n = q
       /\ (resp'.op = "changePassword" /\ now' = now)
          => /\ tokens' = tokens
             /\ IF resp'.status = "OK"
                THEN /\ users'[resp'.email].password # users[resp'.email].password
                     /\ \E n \in Passwords :
                           users' = [users EXCEPT ![resp'.email].password = Hash(n)]
                ELSE users' = users]_vars

\* C19 happens: a password change succeeded, the stored hash is the new one
\* and the access token that made the request is still not invalidated
C19_Witness ==
    /\ resp.op = "changePassword"
    /\ resp.status = "OK"
    /\ users[resp.email].password = Hash(2)
    /\ tokens[resp.token].type = "ACCESS"
    /\ tokens[resp.token].userId = resp.email
    /\ ~tokens[resp.token].invalidated
\* C20: verifyEmail succeeds exactly with a non-invalidated, unexpired
\* EMAIL_VERIFICATION token; it then sets isVerified of the token's owner
\* only and invalidates that token, so that a second verifyEmail with the
\* same token is rejected; a rejected verifyEmail leaves the User table
\* unchanged.
C20_VerifyEmailOnce ==
    [][(resp'.op = "verifyEmail" /\ now' = now)
       => /\ resp'.status = "OK"
             <=> /\ resp'.token \in TokenIds
                 /\ tokens[resp'.token].type = "EMAIL_VERIFICATION"
                 /\ ~tokens[resp'.token].invalidated
                 /\ now <= tokens[resp'.token].expiresAt
                 /\ users[tokens[resp'.token].userId].exists
          /\ IF resp'.status = "OK"
             THEN /\ resp'.email = tokens[resp'.token].userId
                  /\ users' = [users EXCEPT ![resp'.email].isVerified = TRUE]
                  /\ tokens' = [tokens EXCEPT ![resp'.token].invalidated = TRUE]
             ELSE /\ users' = users
                  /\ tokens' # tokens
                     => /\ tokens[resp'.token].type = "EMAIL_VERIFICATION"
                        /\ now > tokens[resp'.token].expiresAt
                        /\ tokens' = [tokens EXCEPT ![resp'.token].invalidated = TRUE]]_vars

\* C20 happens: the token that verified its owner was presented again before
\* its expiry and rejected
C20_Witness ==
    /\ resp.op = "verifyEmail"
    /\ resp.status = "UNAUTHORIZED"
    /\ resp.token \in TokenIds
    /\ tokens[resp.token].type = "EMAIL_VERIFICATION"
    /\ tokens[resp.token].invalidated
    /\ now <= tokens[resp.token].expiresAt
    /\ users[tokens[resp.token].userId].isVerified
\* C21: register with an email that already belongs to a user answers
\* Conflict and changes neither the User nor the Token table; with a free
\* email it creates that one user, active and unverified, and appends exactly
\* one EMAIL_VERIFICATION token record owned by them; the user object of a
\* 201 response has no password field.
C21_RegisterCreatesOneUserOneToken ==
    [][(resp'.op = "register" /\ now' = now)
       => IF users[resp'.email].exists
          THEN /\ resp'.status = "CONFLICT"
               /\ users' = users
               /\ tokens' = tokens
          ELSE /\ resp'.status # "CONFLICT"
               /\ users' = [users EXCEPT ![resp'.email] = users'[resp'.email]]
               /\ users'[resp'.email].exists
               /\ users'[resp'.email].isActive
               /\ ~users'[resp'.email].isVerified
               /\ Len(tokens') = Len(tokens) + 1
               /\ SubSeq(tokens', 1, Len(tokens)) = tokens
               /\ tokens'[Len(tokens')].type = "EMAIL_VERIFICATION"
               /\ tokens'[Len(tokens')].userId = resp'.email
               /\ ~tokens'[Len(tokens')].invalidated
               /\ resp'.status = "CREATED"
                  => ("password" \notin resp'.fields /\ "isVerified" \in resp'.fields)]_vars

\* C21 happens: a second user was registered while the first one exists, and
\* each owns one verification token
C21_Witness ==
    /\ resp.op = "register"
    /\ resp.status = "CREATED"
    /\ \A u \in Users : users[u].exists
    /\ \A u \in Users :
          Cardinality({i \in TokenIds : tokens[i].userId = u /\ tokens[i].type = "EMAIL_VERIFICATION"}) = 1
\* the flows that change security-relevant state
SecurityFlows ==
    {"register", "login", "refreshToken", "logout", "forgotPassword", "resetPassword",
     "changePassword", "verifyEmail"}

\* C22: a security flow that completed successfully (forgot-password: for an
\* existing account) has added, by the time it returned, at least one audit
\* log row that names the user.
C22_CompletedFlowsLogged ==
    (/\ resp.op \in SecurityFlows
     /\ resp.status \in {"OK", "CREATED"}
     /\ resp.op = "forgotPassword" => users[resp.email].exists)
    => \E row \in resp.log : row.userId = resp.email
\* C23: the gateway accepts a connection exactly when its handshake carries a
\* token issued by login to an authenticated user; a handshake without a
\* token or with an invalid one is refused, so every registered connection
\* belongs to an authenticated user.
C23_GatewayAcceptsLoginTokens ==
    /\ resp.op = "connect" => (resp.status = "OK" <=> resp.handshake.kind = "login")
    /\ \A u \in DOMAIN connectedUsers : u \in Users /\ users[u].exists
\* C24: the registry maps each user id to exactly the ids of that user's
\* currently connected sockets, each once, and no user id is mapped to an
\* empty list.
C24_RegistryMatchesConnections ==
    /\ \A u \in DOMAIN connectedUsers :
          /\ Len(connectedUsers[u]) > 0
          /\ {connectedUsers[u][i] : i \in 1..Len(connectedUsers[u])}
                = {sock \in Sockets : socketUser[sock] = u}
          /\ Len(connectedUsers[u]) = Cardinality({sock \in Sockets : socketUser[sock] = u})
    /\ \A sock \in Sockets : socketUser[sock] # 0 => socketUser[sock] \in DOMAIN connectedUsers

\* C24 happens: the last connection has disconnected and the entry of its
\* user is gone from the registry
C24_Witness ==
    /\ resp.op = "disconnect"
    /\ DOMAIN connectedUsers = {}
    /\ \A sock \in Sockets : socketUser[sock] = 0
\* C25: a new:notification event reaches a connection only for a notification
\* whose record is in the store and whose recipient is the user of that
\* connection; the push goes to every connection the recipient has at lookup
\* time and to no other; a sendNotification whose create failed pushes
\* nothing and stores nothing.
C25_PersistBeforePush ==
    [][/\ \A sock \in Sockets : \A n \in pushed'[sock] :
             /\ n \in 1..Len(notifications')
             /\ notifications'[n].recipientId = socketUser'[sock]
       /\ (sn.pc = "push" /\ sn'.pc = "idle")
          => /\ sn.id \in NotificationIds
             /\ \A sock \in Sockets :
                   pushed'[sock] = IF socketUser[sock] = sn.recipientId
                                   THEN pushed[sock] \cup {sn.id} ELSE pushed[sock]
       /\ (sn' = sn /\ resp'.op = "sendNotification" /\ resp'.status # "OK")
          => (pushed' = pushed /\ notifications' = notifications)
       /\ (\E sock \in Sockets : ~(pushed'[sock] \subseteq pushed[sock]))
          => sn.pc = "push"]_vars

\* C25 happens: a notification was stored and then pushed to the recipient's
\* connection, another user is connected and got nothing
C25_Witness ==
    /\ resp.op = "sendNotification"
    /\ resp.status = "OK"
    /\ \E a \in Sockets, b \in Sockets :
          /\ socketUser[a] = resp.email
          /\ pushed[a] # {}
          /\ socketUser[b] \notin {0, resp.email}
          /\ pushed[b] = {}
\* C26: when sendNotification fails for one recipient of a broadcast, every
\* other targeted recipient still gets its notification stored and the
\* broadcast does not reject.
C26_BroadcastIsolatesFailures ==
    [][resp'.op = "broadcastNotification"
       => LET recipients == {u \in Users : users[u].exists /\ users[u].isActive}
          IN /\ \A u \in recipients \ resp'.failed :
                   \E n \in (Len(notifications) + 1)..Len(notifications') :
                       notifications'[n].recipientId = u
             /\ Cardinality(resp'.failed) = 1 => resp'.status = "OK"]_vars
\* C27: every stored notification that is read is seen; no operation clears
\* seen; mark:seen sets seen and mark:read sets read and seen of the
\* notification with the given id, and neither changes another notification
\* or another field.
C27_ReadImpliesSeen ==
    [][/\ \A n \in 1..Len(notifications') : notifications'[n].read => notifications'[n].seen
       /\ Len(notifications') >= Len(notifications)
       /\ \A n \in NotificationIds : notifications[n].seen => notifications'[n].seen
       /\ \A sock \in Sockets, id \in 0..MaxNotifications :
             (MarkSeen(sock, id) \/ MarkRead(sock, id))
             => /\ Len(notifications') = Len(notifications)
                /\ \A n \in NotificationIds :
                      /\ notifications'[n].recipientId = notifications[n].recipientId
                      /\ notifications'[n].createdAt = notifications[n].createdAt
                      /\ n # id => notifications'[n] = notifications[n]
                      /\ n = id
                         => /\ notifications'[n].seen
                            /\ notifications'[n].read = (MarkRead(sock, id) \/ notifications[n].read)]_vars

\* C27 happens: one notification was marked read (and is seen), the other
\* one was marked seen only
C27_Witness ==
    /\ resp.op \in {"mark:seen", "mark:read"}
    /\ \E a \in NotificationIds, b \in NotificationIds :
          /\ notifications[a].read /\ notifications[a].seen
          /\ notifications[b].seen /\ ~notifications[b].read
\* C28: at most one cleanup timer is ever scheduled, and it is the one the
\* service holds; start() schedules one when there is none and leaves the
\* scheduled one in place otherwise; stop() clears it; nothing else changes
\* the timers.
C28_AtMostOneTimer ==
    [][/\ Cardinality(timers') <= 1
       /\ timers' = IF cleanupInterval' = NULL THEN {} ELSE {cleanupInterval'}
       /\ resp'.op = "cleanupService.start"
          => (Cardinality(timers') = 1 /\ (timers # {} => timers' = timers))
       /\ resp'.op = "cleanupService.stop" => timers' = {}
       /\ resp'.op \notin {"cleanupService.start", "cleanupService.stop"} => timers' = timers]_vars

\* C28 happens: start() was called while a timer was scheduled and that one
\* timer is still the only one
C28_Witness ==
    /\ resp.op = "cleanupService.start"
    /\ resp.message = "Cleanup service is already running"
    /\ Cardinality(timers) = 1
\* C29: a cleanup run deletes, in one transaction, exactly the sessions whose
\* lastActive is older than the inactivity timeout and exactly the tokens
\* whose expiresAt is in the past, and changes no other session or token; a
\* run whose transaction fails deletes nothing; a second run at the same
\* time deletes nothing more.
C29_CleanupDeletesExactlyExpired ==
    [][/\ TokensAfterCleanup(TokensAfterCleanup(tokens)) = TokensAfterCleanup(tokens)
       /\ SessionsAfterCleanup(SessionsAfterCleanup(sessions)) = SessionsAfterCleanup(sessions)
       /\ (resp'.op = "runCleanup" /\ now' = now)
          => IF resp'.status = "OK"
             THEN /\ sessions' \subseteq sessions
                  /\ \A x \in sessions : x \in sessions' <=> x.lastActive + InactiveTimeout >= now
                  /\ Len(tokens') = Len(tokens)
                  /\ \A i \in TokenIds :
                        tokens'[i] = IF tokens[i].type # "DELETED" /\ tokens[i].expiresAt < now
                                     THEN DeletedToken ELSE tokens[i]
             ELSE sessions' = sessions /\ tokens' = tokens]_vars

\* C29 happens: a run has deleted an expired token and left an unexpired
\* token and a recent session in place
C29_Witness ==
    /\ resp.op = "runCleanup"
    /\ resp.status = "OK"
    /\ \E i \in TokenIds : tokens[i].type = "DELETED"
    /\ \E i \in TokenIds : tokens[i].type = "ACCESS" /\ tokens[i].expiresAt >= now
    /\ \E x \in sessions : x.lastActive + InactiveTimeout >= now
    /\ Cardinality(sessions) < NumSessionIds
\* C30: a request that follows a successful login and carries only its
\* cookies authenticates with the access token of that login, and a refresh
\* that follows a login with rememberMe and carries only its cookies is
\* served with the refresh token of that login.
C30_CookieTokensUsable ==
    [][(resp.op = "login" /\ resp.status = "OK" /\ now' = now)
       => /\ resp'.op = "authenticate"
             => (resp'.status = "OK" /\ resp'.token = resp.accessToken)
          /\ (resp'.op = "refreshToken" /\ resp.refreshToken # NoToken)
             => resp'.token = resp.refreshToken]_vars
\* C31: rotateRefreshToken applies both writes or neither: when it returns,
\* the old record is invalidated and one new record with the type and owner
\* of the old one and the given expiry has been added; when a write fails,
\* the Token table is as it was.  No other record changes.
C31_RotateAllOrNothing ==
    [][\A old \in 1..MaxTokens, e \in 0..MaxTime, f \in {"none", "update", "create"} :
          RotateRefreshToken(old, e, f)
          => IF resp'.status = "OK"
             THEN /\ f = "none"
                  /\ Len(tokens') = Len(tokens) + 1
                  /\ tokens'[old].invalidated
                  /\ \A i \in TokenIds \ {old} : tokens'[i] = tokens[i]
                  /\ tokens'[old] = [tokens[old] EXCEPT !.invalidated = TRUE]
                  /\ tokens'[Len(tokens')].type = tokens[old].type
                  /\ tokens'[Len(tokens')].userId = tokens[old].userId
                  /\ tokens'[Len(tokens')].expiresAt = e
                  /\ ~tokens'[Len(tokens')].invalidated
             ELSE tokens' = tokens]_vars

\* C31 happens: a token of a logged-in user was rotated; the old record is
\* invalidated and its successor is not
C31_Witness ==
    /\ resp.op = "rotateRefreshToken"
    /\ resp.status = "OK"
    /\ tokens[resp.token].type = "ACCESS"
    /\ tokens[resp.token].invalidated
    /\ tokens[Len(tokens)].type = "ACCESS"
    /\ tokens[Len(tokens)].userId = tokens[resp.token].userId
    /\ ~tokens[Len(tokens)].invalidated
\* C32: handleFailedLoginAttempt for an existing user records one failed
\* attempt and, with c the failed attempts of the user inside the trailing
\* window before the call, locks the account until now + lockout duration and
\* raises TooManyRequests exactly when c + 1 >= maxLoginAttempts; otherwise
\* the lock state is unchanged and no error is raised.  For an unknown email
\* nothing changes.
C32_LockExactlyAtThreshold ==
    [][\A e \in Users :
          HandleFailedLoginAttempt(e)
          => LET c == Cardinality({i \in 1..Len(loginAttempts) :
                          /\ loginAttempts[i].userId = e
                          /\ ~loginAttempts[i].success
                          /\ loginAttempts[i].createdAt + LoginAttemptWindow >= now})
             IN IF ~users[e].exists
                THEN /\ users' = users
                     /\ loginAttempts' = loginAttempts
                     /\ resp'.status = "OK"
                ELSE /\ loginAttempts' = Append(loginAttempts,
                            [userId |-> e, success |-> FALSE, createdAt |-> now])
                     /\ \A u \in Users \ {e} : users'[u] = users[u]
                     /\ IF c + 1 >= MaxLoginAttempts
                        THEN /\ users'[e].isLocked
                             /\ users'[e].lockoutExpiry = now + AccountLockoutDuration
                             /\ resp'.status = "TOO_MANY_REQUESTS"
                        ELSE /\ users' = users
                             /\ resp'.status = "OK"]_vars

\* C32 happens: a failed attempt that reached the threshold locked the
\* account, while an older failed attempt of the same user lies outside the
\* window
C32_Witness ==
    /\ resp.op = "handleFailedLoginAttempt"
    /\ resp.status = "TOO_MANY_REQUESTS"
    /\ users[resp.email].isLocked
    /\ users[resp.email].lockoutExpiry = now + AccountLockoutDuration
    /\ \E i \in 1..Len(loginAttempts) :
          /\ loginAttempts[i].userId = resp.email
          /\ ~loginAttempts[i].success
          /\ loginAttempts[i].createdAt + LoginAttemptWindow < now
\* C33: a manageSessions call that returns, for a user with k sessions and
\* maximum M, leaves the user with k + 1 sessions when k < M and with M
\* sessions when k >= M; the new session is among them, every evicted session
\* is at least as old (lastActive) as every retained one, nothing is evicted
\* when k < M, and the sessions of other users are unchanged.
C33_ManageSessionsCount ==
    [][\A u \in Users, id \in SessionIds :
          (ManageSessions(u, id) /\ resp'.status = "OK")
          => LET k == Cardinality(SessionsOf(u))
                 after == {x \in sessions' : x.userId = u}
                 new == [id |-> id, userId |-> u, lastActive |-> now]
             IN /\ Cardinality(after) = IF k < MaxConcurrentSessions
                                        THEN k + 1 ELSE MaxConcurrentSessions
                /\ new \in after
                /\ after \ {new} \subseteq SessionsOf(u)
                /\ k < MaxConcurrentSessions => SessionsOf(u) \subseteq after
                /\ k >= MaxConcurrentSessions
                      => Cardinality(after \ {new}) = MaxConcurrentSessions - 1
                /\ \A a \in after \ {new}, b \in SessionsOf(u) \ after :
                      a.lastActive >= b.lastActive
                /\ {x \in sessions' : x.userId # u} = {x \in sessions : x.userId # u}]_vars

\* C33 happens: manageSessions returned for a user who now has exactly the
\* maximum number of sessions, the new one among them, at the last clock
\* value, while another user holds a session too and no session active at
\* time 0 is left
C33_Witness ==
    /\ resp.op = "manageSessions"
    /\ resp.status = "OK"
    /\ Cardinality(SessionsOf(resp.email)) = MaxConcurrentSessions
    /\ \E x \in SessionsOf(resp.email) : x.lastActive = now
    /\ \E x \in sessions : x.userId # resp.email
    /\ now = MaxTime
    /\ \A x \in sessions : x.lastActive > 0
\* C34: deleteUser keeps the row and sets deletedAt and isActive = false; and
\* while a user is inactive (soft-deleted or deactivated), a login, an
\* authenticate with one of the user's tokens and a refresh flow that reads
\* the user are rejected and issue nothing.
C34_InactiveUserIsRejected ==
    [][/\ \A u \in Users :
            (DeleteUser(u) /\ users[u].exists)
            => /\ users'[u].exists
               /\ users'[u].deletedAt = now
               /\ ~users'[u].isActive
               /\ tokens' = tokens
       /\ \A e \in Users, p \in Passwords, r \in BOOLEAN :
            (Login(e, p, r) /\ users[e].exists /\ ~users[e].isActive)
            => /\ resp'.status = "UNAUTHORIZED"
               /\ tokens' = tokens
       /\ \A t \in TokenIds :
            (resp'.op = "authenticate" /\ resp'.token = t /\ now' = now
                /\ tokens[t].userId \in Users /\ ~users[tokens[t].userId].isActive)
            => /\ resp'.status = "UNAUTHORIZED"
               /\ reqUser' = NULL
       /\ (RfGetUser /\ ~users[tokens[rf.old].userId].isActive)
            => /\ resp'.status = "UNAUTHORIZED"
               /\ rf' = Idle
               /\ tokens' = tokens]_vars

\* C34 happens: a refresh with a refresh token that is neither expired nor
\* invalidated was rejected because its owner is soft-deleted
C34_Witness ==
    /\ resp.op = "refreshToken"
    /\ resp.message = "User not found or inactive"
    /\ resp.token \in TokenIds
    /\ tokens[resp.token].type = "REFRESH"
    /\ ~tokens[resp.token].invalidated
    /\ tokens[resp.token].expiresAt >= now
    /\ users[tokens[resp.token].userId].deletedAt # NULL
    /\ ~users[tokens[resp.token].userId].isActive
\* C35: a refresh token is redeemed at most once: no two refreshToken calls
\* that presented the same refresh token have both returned a new pair.
C35_RefreshTokenRedeemedOnce ==
    \A p \in Procs, q \in Procs :
        (/\ p # q
         /\ procs[p].op = "refreshToken" /\ procs[q].op = "refreshToken"
         /\ procs[p].result = "ok" /\ procs[q].result = "ok")
        => procs[p].tokenRecord # procs[q].tokenRecord
\* C36: the lockout is not lost under concurrency: whenever every
\* handleFailedLoginAttempt call has finished and the store holds at least
\* maxLoginAttempts failed attempts of a user inside the window, that user is
\* locked.
C36_LockoutNotLost ==
    (\A p \in Procs : Finished(p))
    => \A u \in Users :
          RecentAttempts(u) >= MaxLoginAttempts => users[u].isLocked
\* C37: the per-user session limit holds under concurrency: whenever every
\* manageSessions call has finished, no user has more than
\* maxConcurrentSessions sessions.
C37_SessionLimitHolds ==
    (\A p \in Procs : Finished(p))
    => \A u \in Users : Cardinality(SessionsOf(u)) <= MaxConcurrentSessions
\* C38: a user changes the seen/read flags of their own notifications only: a
\* mark:seen or mark:read from a connection of user U, or a REST markAsSeen or
\* markAsRead by U, with the id of a notification whose recipient is another
\* user leaves that notification unchanged.
C38_OnlyOwnNotifications ==
    [][\A n \in NotificationIds :
          /\ \A sock \in Sockets :
                ((MarkSeen(sock, n) \/ MarkRead(sock, n))
                    /\ notifications[n].recipientId # socketUser[sock])
                => notifications'[n] = notifications[n]
          /\ \A u \in Users :
                ((MarkAsSeen(u, n) \/ MarkAsRead(u, n))
                    /\ notifications[n].recipientId # u)
                => notifications'[n] = notifications[n]]_vars
\* C39: register is all-or-nothing: a register call that returns an error
\* (the email is taken, or the verification email cannot be sent) has created
\* no user and no token record.
C39_RegisterAllOrNothing ==
    [][\A e \in Users, p \in Passwords, m \in BOOLEAN :
          (Register(e, p, m) /\ resp'.status # "CREATED")
          => (users' = users /\ tokens' = tokens)]_vars
\* C40: a password reset revokes everything even when a login races with it:
\* once no reset is in flight, every finished login that verified a password
\* hash the user no longer has (the password was reset after the login read
\* the user) has only invalidated ACCESS and REFRESH records.
C40_ResetRevokesRacingLogin ==
    rp.pc = "idle"
    => \A p \in Procs :
          (/\ procs[p].op = "login"
           /\ procs[p].pc = "done"
           /\ procs[p].result = "ok"
           /\ users[procs[p].user].password # procs[p].verified)
          => /\ tokens[procs[p].accessTokenRecord].invalidated
             /\ procs[p].refreshTokenRecord # NoToken
                   => tokens[procs[p].refreshTokenRecord].invalidated
====
